---- MODULE Spec2Model ----
(***************************************************************************)
(* State-machine model of the document insight front end:                  *)
(*   - KnowledgeGraph  (force simulation, drag, zoom, reset, fetch)        *)
(*   - DocumentUpload  (batch filter, upload request, progress, statuses)  *)
(*   - the page state the two components report to (cluster id, documents) *)
(*                                                                         *)
(* Numbers.  The source computes in IEEE doubles.  The model computes in   *)
(* fixed point: a coordinate or a velocity is an integer number of         *)
(* 1/Scale pixels, a division truncates toward zero, Math.sqrt is the      *)
(* integer square root.  The zoom factor is an exact fraction n/d.         *)
(*                                                                         *)
(* Rendering.  A handler, the re-render it causes and the effects of that  *)
(* render are one step (React batches the state updates of one callback).  *)
(***************************************************************************)
EXTENDS Integers, Sequences, FiniteSets, TLC

VARIABLES
    \* page.tsx: DocumentInsightEngine
    clusterId,           \* string | null
    documents,           \* sequence of document names
    selectedDocument,    \* string | null
    showKnowledgeGraph,  \* the isVisible prop of KnowledgeGraph
    selectedText,        \* text (sequence of tokens), empty for ""
    showInsights,
    \* PDFViewer
    adobeClientId,       \* NEXT_PUBLIC_ADOBE_CLIENT_ID is set
    useFallback,
    viewerListener,      \* the EVENT_LISTENER callback of the live view | none
    textSelectionCalls,  \* onTextSelection calls made by the last viewer step
    viewerMounted,       \* a PDFViewer instance is mounted
    sdkPresent,          \* window.AdobeDC is defined
    isAdobeSDKReady,
    sdkAttempts,         \* attempts of the live polling effect
    pollTimer,           \* TRUE while the polling effect's setTimeout is scheduled
    viewerIsLoading,     \* isLoading of PDFViewer
    previewFileCalls,    \* previewFile calls made by the last step
    \* InsightsPanel
    recommendations,     \* sequence of snippets
    isLoadingRecommendations,
    panelError,          \* string | null
    recommendationRequests, \* unresolved fetches of fetchRecommendations
    insights,            \* InsightData | null
    isLoadingInsights,
    insightsRequests,    \* number of unresolved fetches of fetchInsights
    podcastUrl,          \* string | null
    isGeneratingPodcast,
    podcastRequest,      \* the unresolved fetch of generatePodcast | none
    \* DocumentUpload
    files,               \* sequence of [name, size, status]
    isUploading,
    uploadProgress,
    uploadError,         \* message (text fragments) | null
    uploadRequest,       \* the unresolved fetch of uploadFiles | none
    progressInterval,    \* TRUE while the setInterval timer is scheduled
    \* KnowledgeGraph
    graphData,           \* [nodes, links] | null
    graphCluster,        \* observation: cluster id the loaded graph was requested for | null
    isLoading,
    error,               \* string | null
    selectedNode,        \* id of the selected node object | null
    zoom,                \* fraction [n, d]
    pan,                 \* [x, y]
    graphFetches,        \* unresolved fetches of fetchGraphData (cluster ids)
    animationId,         \* animationId of the live simulation effect, 0 = none
    scheduledFrames,     \* requestAnimationFrame callbacks not yet run
    dragListener,        \* the mousemove listener added by onMouseDown | none
    \* what the last handler emitted
    toasts,              \* titles of the toasts raised by the last step
    uploadCompleteCalls, \* onUploadComplete calls made by the last step
    \* observation
    lastOp,              \* the operation of the last step and its input
    zoomInRun,           \* zoomIn calls since zoom was 1 with none else between
    ticks,               \* simulate calls since a fetch last replaced the data
    zoomClicks           \* zoom button clicks so far (saturating)

vars == << clusterId, documents, selectedDocument, showKnowledgeGraph,
           files, isUploading, uploadProgress, uploadError, uploadRequest,
           progressInterval,
           graphData, graphCluster, isLoading, error, selectedNode, zoom, pan,
           graphFetches, animationId, scheduledFrames, dragListener,
           toasts, uploadCompleteCalls, lastOp, zoomInRun, ticks, zoomClicks,
           selectedText, showInsights, adobeClientId, useFallback,
           viewerListener, textSelectionCalls, viewerMounted, sdkPresent,
           isAdobeSDKReady, sdkAttempts, pollTimer, viewerIsLoading,
           previewFileCalls, recommendations,
           isLoadingRecommendations, panelError, recommendationRequests,
           insights, isLoadingInsights, insightsRequests, podcastUrl,
           isGeneratingPodcast, podcastRequest >>

pageVars == << clusterId, documents, selectedDocument >>
viewerVars == << useFallback, viewerListener, viewerMounted, isAdobeSDKReady,
                 sdkAttempts, pollTimer, viewerIsLoading, previewFileCalls >>
recommendationVars == << recommendations, isLoadingRecommendations, panelError,
                         recommendationRequests >>
insightVars == << insights, isLoadingInsights, insightsRequests >>
podcastVars == << podcastUrl, isGeneratingPodcast, podcastRequest >>
panelVars == << recommendationVars, insightVars, podcastVars >>
readerVars == << selectedText, showInsights, adobeClientId, textSelectionCalls,
                 sdkPresent, viewerVars, panelVars >>
uploadVars == << files, isUploading, uploadProgress, uploadError,
                 uploadRequest, progressInterval, uploadCompleteCalls >>
graphVars == << showKnowledgeGraph, graphData, graphCluster, isLoading, error, selectedNode,
                zoom, pan, graphFetches, animationId, scheduledFrames,
                dragListener, zoomInRun, ticks, zoomClicks >>

Null == "null"
None == [kind |-> "none"]
\* null where the value is otherwise a message, kept as its text fragments
NoMessage == << >>

-----------------------------------------------------------------------------
(* Bounds *)

\* resolution of the fixed-point arithmetic: units per pixel
Scale == 1
\* unresolved graph fetches kept at once
MaxFetches == 2
\* handles requestAnimationFrame can hand out at once
MaxFrames == 3
\* longest batch of files submitted at once
MaxBatch == 3
\* longest run of zoomIn calls the observer counts
MaxZoomRun == 8
\* simulation steps explored after each loaded graph (layout specification)
MaxTicks == 2
\* zoom button clicks explored in the layout specification
MaxZoomClicks == 1
\* unresolved recommendation requests kept at once
MaxRequests == 2

-----------------------------------------------------------------------------
(* Arithmetic *)

Abs(a) == IF a < 0 THEN -a ELSE a

\* a / b, truncated toward zero (b > 0)
TDiv(a, b) == IF a >= 0 THEN a \div b ELSE -((-a) \div b)

Min(a, b) == IF a < b THEN a ELSE b
Max(a, b) == IF a > b THEN a ELSE b

RECURSIVE SqrtSearch(_, _, _)
SqrtSearch(n, lo, hi) ==
    IF lo >= hi THEN lo
    ELSE LET mid == (lo + hi + 1) \div 2
         IN  IF mid * mid <= n THEN SqrtSearch(n, mid, hi)
                               ELSE SqrtSearch(n, lo, mid - 1)

\* floor(Math.sqrt(n))
Sqrt(n) == SqrtSearch(n, 0, Min(n, 46340))

RECURSIVE Gcd(_, _)
Gcd(a, b) == IF b = 0 THEN a ELSE Gcd(b, a % b)

\* fractions n/d with d > 0, in lowest terms
Frac(n, d) == LET g == Gcd(n, d) IN [n |-> n \div g, d |-> d \div g]
FracLess(a, b) == a.n * b.d < b.n * a.d
FracMin(a, b) == IF FracLess(b, a) THEN b ELSE a
FracMax(a, b) == IF FracLess(a, b) THEN b ELSE a
FracMul(a, b) == Frac(a.n * b.n, a.d * b.d)
FracDiv(a, b) == Frac(a.n * b.d, a.d * b.n)

RECURSIVE Pow(_, _)
Pow(b, k) == IF k = 0 THEN 1 ELSE b * Pow(b, k - 1)

-----------------------------------------------------------------------------
(* KnowledgeGraph: the force simulation (simulate, lines 1272-1336) *)

CenterX == 300
CenterY == 200
\* centerForce = 0.01 = 1 / CenterForceDiv
CenterForceDiv == 100
RepulsionStrength == 500
TargetDistance == 100
\* link factor 0.1 = 1 / LinkForceDiv
LinkForceDiv == 10
\* damping 0.9 = DampingNum / DampingDen
DampingNum == 9
DampingDen == 10
MinX == 20
MaxX == 580
MinY == 20
MaxY == 380

NullData == [kind |-> "null"]

\* useState<InsightData | null>(null) of the insights panel
NoInsights == [kind |-> "null"]

GraphOf(nodes, links) == [kind |-> "data", nodes |-> nodes, links |-> links]

\* Math.sqrt(dx * dx + dy * dy) || 1
Distance(dx, dy) ==
    LET d == Sqrt(dx * dx + dy * dy) IN IF d = 0 THEN Scale ELSE d

\* (dx / distance) * (500 / (distance * distance)), one component
RepulsionForce(dc, distance) ==
    TDiv(dc * ((RepulsionStrength * Scale * Scale * Scale)
                   \div (distance * distance)), distance)

\* (dx / distance) * ((distance - targetDistance) * 0.1), one component
LinkForce(dc, distance) ==
    TDiv(dc * TDiv(distance - TargetDistance * Scale, LinkForceDiv), distance)

\* the inner nodes.forEach((other) => ...) of one node, from other j on
RECURSIVE Repel(_, _, _)
Repel(node, nodes, j) ==
    IF j > Len(nodes) THEN node
    ELSE LET other == nodes[j]
             dx == node.x - other.x
             dy == node.y - other.y
             distance == Distance(dx, dy)
         IN  Repel(IF node.id # other.id
                   THEN [node EXCEPT !.vx = @ + RepulsionForce(dx, distance),
                                     !.vy = @ + RepulsionForce(dy, distance)]
                   ELSE node,
                   nodes, j + 1)

\* the body of the first nodes.forEach((node) => ...): center force, then
\* repulsion (positions are not written before the last loop)
ApplyNodeForces(nodes, i) ==
    LET node == nodes[i]
        centered == [node EXCEPT
                       !.vx = @ + TDiv(CenterX * Scale - node.x, CenterForceDiv),
                       !.vy = @ + TDiv(CenterY * Scale - node.y, CenterForceDiv)]
    IN  Repel(centered, nodes, 1)

\* nodes.find((n) => n.id === id): index of the first match, 0 = undefined
FindNode(nodes, id) ==
    IF \E i \in DOMAIN nodes : nodes[i].id = id
    THEN CHOOSE i \in DOMAIN nodes :
            /\ nodes[i].id = id
            /\ \A j \in DOMAIN nodes : nodes[j].id = id => i <= j
    ELSE 0

\* a link force that needs the source only and takes a missing target to sit
\* at (0, 0)
ApplyLinkForceSourceOnly(nodes, link) ==
    LET s == FindNode(nodes, link.source)
        t == FindNode(nodes, link.target)
    IN  IF s # 0
        THEN LET dx == (IF t # 0 THEN nodes[t].x ELSE 0) - nodes[s].x
                 dy == (IF t # 0 THEN nodes[t].y ELSE 0) - nodes[s].y
                 distance == Distance(dx, dy)
                 fx == LinkForce(dx, distance)
                 fy == LinkForce(dy, distance)
                 pulled == [nodes EXCEPT ![s].vx = @ + fx, ![s].vy = @ + fy]
             IN  IF t # 0 THEN [pulled EXCEPT ![t].vx = @ - fx, ![t].vy = @ - fy]
                 ELSE pulled
        ELSE nodes

\* the body of links.forEach((link) => ...) for one link
ApplyLinkForce(nodes, link) ==
    LET s == FindNode(nodes, link.source)
        t == FindNode(nodes, link.target)
    IN  IF s # 0 /\ t # 0
        THEN LET dx == nodes[t].x - nodes[s].x
                 dy == nodes[t].y - nodes[s].y
                 distance == Distance(dx, dy)
                 fx == LinkForce(dx, distance)
                 fy == LinkForce(dy, distance)
                 pulled == [nodes EXCEPT ![s].vx = @ + fx, ![s].vy = @ + fy]
             IN  [pulled EXCEPT ![t].vx = @ - fx, ![t].vy = @ - fy]
        ELSE nodes

RECURSIVE ApplyLinks(_, _, _)
ApplyLinks(nodes, links, k) ==
    IF k > Len(links) THEN nodes
    ELSE ApplyLinks(ApplyLinkForce(nodes, links[k]), links, k + 1)

\* a clamp that forgets the upper bound
ClampLowerOnly(lo, hi, v) == Max(lo, v)

\* Math.max(lo, Math.min(hi, v))
Clamp(lo, hi, v) == Max(lo, Min(hi, v))

\* the body of the last nodes.forEach((node) => ...): damping, move, clamp
Integrate(node) ==
    LET vx == TDiv(node.vx * DampingNum, DampingDen)
        vy == TDiv(node.vy * DampingNum, DampingDen)
    IN  [node EXCEPT !.vx = vx, !.vy = vy,
                     !.x = Clamp(MinX * Scale, MaxX * Scale, node.x + vx),
                     !.y = Clamp(MinY * Scale, MaxY * Scale, node.y + vy)]

\* a tick that returns the moved nodes and no links
SimulateWithoutLinks(prevData) ==
    IF prevData = NullData THEN prevData
    ELSE GraphOf([i \in DOMAIN prevData.nodes |->
                     Integrate(ApplyNodeForces(prevData.nodes, i))], << >>)

\* the updater passed to setGraphData by simulate
Simulate(prevData) ==
    IF prevData = NullData THEN prevData
    ELSE LET forced == [i \in DOMAIN prevData.nodes |->
                            ApplyNodeForces(prevData.nodes, i)]
             linked == ApplyLinks(forced, prevData.links, 1)
         IN  [prevData EXCEPT !.nodes = [i \in DOMAIN linked |->
                                            Integrate(linked[i])]]

-----------------------------------------------------------------------------
(* KnowledgeGraph: view state and handlers *)

One == [n |-> 1, d |-> 1]
\* the step 1.2 of zoomIn and zoomOut
ZoomStep == [n |-> 6, d |-> 5]
\* the clamps 3 and 0.5
ZoomMax == [n |-> 3, d |-> 1]
ZoomMin == [n |-> 1, d |-> 2]
Origin == [x |-> 0, y |-> 0]

\* a zoomIn that multiplies and does not clamp
ZoomInUnclamped(prev) == FracMul(prev, ZoomStep)

\* zoomIn: setZoom((prev) => Math.min(prev * 1.2, 3))
ZoomInUpdate(prev) == FracMin(FracMul(prev, ZoomStep), ZoomMax)

\* a zoomOut that divides and does not clamp
ZoomOutUnclamped(prev) == FracDiv(prev, ZoomStep)

\* zoomOut: setZoom((prev) => Math.max(prev / 1.2, 0.5))
ZoomOutUpdate(prev) == FracMax(FracDiv(prev, ZoomStep), ZoomMin)

\* clusterId={clusterId || ""}
ClusterProp(c) == IF c = Null THEN "" ELSE c

\* the svg element exists: if (!isVisible) return null; {graphData && !isLoading && <svg ref={svgRef}>}
SvgMounted(visible, data, loading) ==
    visible /\ data # NullData /\ ~loading

\* requestAnimationFrame: a handle no scheduled callback has
RequestFrame(frames) ==
    CHOOSE f \in 1..MaxFrames :
        f \notin frames /\ \A g \in 1..MaxFrames : g \notin frames => f <= g

\* a simulation effect without the cleanup: the previous run's callback stays
SimulationEffectWithoutCleanup(changed, data, mounted, animId, frames) ==
    IF ~changed THEN [animationId |-> animId, frames |-> frames]
    ELSE IF data = NullData \/ ~mounted
    THEN [animationId |-> 0, frames |-> frames]
    ELSE [animationId |-> RequestFrame(frames),
          frames |-> frames \cup {RequestFrame(frames)}]

\* the simulation effect, deps [graphData]: cleanup of the previous run, then
\* the body.  Result: the live animationId and the scheduled callbacks.
SimulationEffect(changed, data, mounted, animId, frames) ==
    IF ~changed THEN [animationId |-> animId, frames |-> frames]
    ELSE LET cleaned == IF animId # 0 THEN frames \ {animId} ELSE frames
         IN  IF data = NullData \/ ~mounted
             THEN [animationId |-> 0, frames |-> cleaned]
             ELSE LET f == RequestFrame(cleaned)
                  IN  [animationId |-> f, frames |-> cleaned \cup {f}]

\* the fetch effect, deps [isVisible, clusterId, graphData]
FetchEffectFires(changed, visible, cid, data) ==
    changed /\ visible /\ cid # "" /\ data = NullData

\* (clientX - rect.left) / zoom - pan.x, in units
PointerCoord(client, edge, z, panc) ==
    LET q == (client - edge) * z.d
        a == Abs(q)
        whole == (a \div z.n) * Scale + ((a % z.n) * Scale) \div z.n
    IN  (IF q < 0 THEN -whole ELSE whole) - panc * Scale

\* a drag that moves the node and keeps its velocity
DragUpdateKeepsVelocity(prevData, id, x, y) ==
    IF prevData = NullData THEN prevData
    ELSE [prevData EXCEPT !.nodes =
            [i \in DOMAIN prevData.nodes |->
                IF prevData.nodes[i].id = id
                THEN [prevData.nodes[i] EXCEPT !.x = x, !.y = y]
                ELSE prevData.nodes[i]]]

\* the updater passed to setGraphData by handleNodeDrag
DragUpdate(prevData, id, x, y) ==
    IF prevData = NullData THEN prevData
    ELSE [prevData EXCEPT !.nodes =
            [i \in DOMAIN prevData.nodes |->
                IF prevData.nodes[i].id = id
                THEN [prevData.nodes[i] EXCEPT !.x = x, !.y = y, !.vx = 0, !.vy = 0]
                ELSE prevData.nodes[i]]]

\* handleNodeClick: setSelectedNode(node)
HandleNodeClick(node) == node.id

\* `node-${index}`, index from 0
DefaultNodeId(index) == "node-" \o ToString(index)

\* processedData of fetchGraphData; start[i] is the pair of Math.random()
\* draws of node i: x in [100, 500), y in [100, 400)
ProcessGraph(payload, start) ==
    GraphOf([i \in DOMAIN payload.nodes |->
                [id |-> IF payload.nodes[i].id = "" THEN DefaultNodeId(i - 1)
                                                    ELSE payload.nodes[i].id,
                 x |-> start[i].x * Scale, y |-> start[i].y * Scale,
                 vx |-> 0, vy |-> 0]],
            [k \in DOMAIN payload.links |->
                [source |-> payload.links[k].source,
                 target |-> payload.links[k].target,
                 weight |-> IF payload.links[k].weight = 0 THEN 1
                            ELSE payload.links[k].weight]])

\* the links the render draws: if (!source || !target) return null
RenderedLinks(data) ==
    { k \in DOMAIN data.links :
        /\ FindNode(data.nodes, data.links[k].source) # 0
        /\ FindNode(data.nodes, data.links[k].target) # 0 }

\* the nodes the render draws: graphData.nodes.map((node) => <g key={node.id}>
RenderedNodes(data) == DOMAIN data.nodes

-----------------------------------------------------------------------------
(* Inputs of the graph view *)

ClusterIds == {"c1", "c2"}

\* response bodies of GET /api/v1/graph/{clusterId}; id "" and weight 0
\* stand for an absent field
NodeIn(id) == [id |-> id]
LinkIn(s, t, w) == [source |-> s, target |-> t, weight |-> w]
Body(nodes, links) ==
    [hasNodes |-> TRUE, hasLinks |-> TRUE, nodes |-> nodes, links |-> links]
NoBody == [hasNodes |-> FALSE, hasLinks |-> FALSE, nodes |-> << >>, links |-> << >>]

Json(body) == [kind |-> "json", text |-> "", body |-> body]
Rejected(message) == [kind |-> "reject", text |-> message, body |-> NoBody]
NotOk(statusText) == [kind |-> "status", text |-> statusText, body |-> NoBody]

\* {nodes: [a, b], links: [a -> b]}
LinkedPair == Body(<< NodeIn("a"), NodeIn("b") >>, << LinkIn("a", "b", 0) >>)
\* {nodes: [a, b], links: [a -> z]}: the target does not resolve
DanglingLink == Body(<< NodeIn("a"), NodeIn("b") >>, << LinkIn("a", "z", 2) >>)
\* a node without id, a link whose source does not resolve, a resolved link
MixedGraph == Body(<< NodeIn("a"), NodeIn("") >>,
                   << LinkIn("z", "a", 0), LinkIn("node-1", "a", 0) >>)
EmptyGraph == Body(<< >>, << >>)
\* {links: []}: no nodes array
MissingNodes == [EmptyGraph EXCEPT !.hasNodes = FALSE]
MissingLinks == [LinkedPair EXCEPT !.hasLinks = FALSE, !.links = << >>]

\* how a graph fetch can end
GraphOutcomes ==
    { Json(LinkedPair), Json(DanglingLink), Json(MixedGraph), Json(EmptyGraph),
      Json(MissingNodes), Json(MissingLinks),
      Rejected("Failed to fetch"), NotOk("Not Found") }

\* the outcomes explored by the layout specification
LayoutOutcomes ==
    { Json(LinkedPair), Json(DanglingLink), Json(MixedGraph), Json(EmptyGraph),
      Json(MissingLinks) }

\* values of (Math.random() * 400 + 100, Math.random() * 300 + 100)
StartPositions ==
    { [x |-> 100, y |-> 100], [x |-> 300, y |-> 200], [x |-> 302, y |-> 201] }

\* pointer positions of a mousemove event and the svg's bounding rectangle
PointerPositions == { [x |-> 740, y |-> 30] }
SvgRects == { [left |-> 40, top |-> 30] }

\* the record kept in lastOp: the operation, the node it was given and, for a
\* drag, the event's clientX, clientY and the rectangle's left, top; for a
\* resolved fetch, the kind of outcome and the response body; for a submit,
\* the batch; for a resolved upload, the outcome (kind, message or status
\* text, cluster_id) and the files of the request; for a viewer event, the
\* event; for a resolved recommendation request, the request
NoEvent == [type |-> "", hasText |-> FALSE, text |-> << >>]
NoRequest == [query |-> << >>, cluster |-> ""]
Op(name) == [op |-> name, id |-> "", x |-> 0, y |-> 0, left |-> 0, top |-> 0,
             body |-> NoBody, batch |-> << >>, text |-> << >>, cluster |-> "",
             event |-> NoEvent, request |-> NoRequest]
FetchOp(outcome) == [Op("fetch") EXCEPT !.id = outcome.kind, !.body = outcome.body]
DragOp(id, p, rect) ==
    [op |-> "drag", id |-> id, x |-> p.x, y |-> p.y,
     left |-> rect.left, top |-> rect.top, body |-> NoBody,
     batch |-> << >>, text |-> << >>, cluster |-> "",
     event |-> NoEvent, request |-> NoRequest]

-----------------------------------------------------------------------------
(* Page: handleUploadComplete (page.tsx 39-45) *)

HandleUploadComplete(newClusterId, documentNames) ==
    /\ clusterId' = newClusterId
    /\ documents' = documentNames
    /\ selectedDocument' = IF Len(documentNames) > 0 THEN documentNames[1]
                           ELSE selectedDocument

-----------------------------------------------------------------------------
(* Page re-render: what it does to PDFViewer and InsightsPanel *)

\* {!clusterId ? ... : selectedDocument ? <PDFViewer .../> : ...} (page.tsx 268-289)
ViewerShown(cid, doc) == cid # Null /\ doc # Null

\* {showInsights && clusterId && <InsightsPanel .../>} (page.tsx 305-332)
PanelShown(show, cid) == show /\ cid # Null

\* the selection effect of InsightsPanel, deps [selectedText, clusterId]: it
\* clears the results for an empty text, else fetchRecommendations() and
\* fetchInsights() run up to their awaits
SelectionEffect(fires, text, cid) ==
    IF ~fires
    THEN UNCHANGED panelVars
    ELSE IF text = << >>
    THEN /\ recommendations' = << >>
         /\ insights' = NoInsights
         /\ podcastUrl' = Null
         /\ UNCHANGED << isLoadingRecommendations, panelError,
                         recommendationRequests, isLoadingInsights,
                         insightsRequests, isGeneratingPodcast, podcastRequest >>
    ELSE /\ Len(recommendationRequests) < MaxRequests
         /\ insightsRequests < MaxRequests
         /\ recommendationRequests' =
                Append(recommendationRequests, [query |-> text, cluster |-> cid])
         /\ isLoadingRecommendations' = TRUE
         /\ panelError' = Null
         /\ insightsRequests' = insightsRequests + 1
         /\ isLoadingInsights' = TRUE
         /\ UNCHANGED << recommendations, insights, podcastVars >>

\* const maxAttempts = 30
MaxAttempts == 30

\* the state of PDFViewer as a record
ViewerState(fallback, ready, attempts, timer, loading, calls) ==
    [useFallback |-> fallback, isAdobeSDKReady |-> ready, attempts |-> attempts,
     timer |-> timer, isLoading |-> loading, previewFileCalls |-> calls]

\* a render that tries the embedded viewer again after a failure
ViewerRenderRetries ==
    IF ~viewerMounted
    THEN IF ~adobeClientId
         THEN ViewerState(TRUE, FALSE, 0, FALSE, FALSE, 0)
         ELSE IF sdkPresent
         THEN ViewerState(FALSE, TRUE, 0, FALSE, TRUE, 1)
         ELSE ViewerState(FALSE, FALSE, 1, TRUE, TRUE, 0)
    ELSE IF useFallback /\ ~isAdobeSDKReady
    THEN ViewerState(TRUE, isAdobeSDKReady, sdkAttempts, pollTimer, FALSE, 0)
    ELSE IF isAdobeSDKReady
    THEN ViewerState(FALSE, TRUE, sdkAttempts, pollTimer, TRUE, 1)
    ELSE ViewerState(FALSE, FALSE, sdkAttempts, pollTimer, viewerIsLoading, 0)

\* PDFViewer after a render of the page that shows it.  On mount the polling
\* effect runs: without client id it sets useFallback, else checkAdobeSDK()
\* finds the SDK (and the initialisation effect, re-run for isAdobeSDKReady,
\* calls previewFile) or counts one attempt and sets the timer.  On a later
\* render onTextSelection is a new function, so the initialisation effect
\* runs again: it returns early in fallback mode and while the SDK is not
\* ready, else it empties the container and calls previewFile again.
ViewerRender ==
    IF ~viewerMounted
    THEN IF ~adobeClientId
         THEN ViewerState(TRUE, FALSE, 0, FALSE, FALSE, 0)
         ELSE IF sdkPresent
         THEN ViewerState(FALSE, TRUE, 0, FALSE, TRUE, 1)
         ELSE ViewerState(FALSE, FALSE, 1, TRUE, TRUE, 0)
    ELSE IF useFallback
    THEN ViewerState(TRUE, isAdobeSDKReady, sdkAttempts, pollTimer, FALSE, 0)
    ELSE IF isAdobeSDKReady
    THEN ViewerState(FALSE, TRUE, sdkAttempts, pollTimer, TRUE, 1)
    ELSE ViewerState(FALSE, FALSE, sdkAttempts, pollTimer, viewerIsLoading, 0)

\* the page has re-rendered with these values of clusterId, selectedDocument,
\* selectedText and showInsights.  PDFViewer: see ViewerRender; the view the
\* callback was registered on is gone.  InsightsPanel: the selection effect
\* runs on mount and when its deps have changed.
ReaderEffects(cid, doc, text, show) ==
    /\ viewerListener' = None
    /\ viewerMounted' = ViewerShown(cid, doc)
    /\ IF ViewerShown(cid, doc)
       THEN /\ useFallback' = ViewerRender.useFallback
            /\ isAdobeSDKReady' = ViewerRender.isAdobeSDKReady
            /\ sdkAttempts' = ViewerRender.attempts
            /\ pollTimer' = ViewerRender.timer
            /\ viewerIsLoading' = ViewerRender.isLoading
            /\ previewFileCalls' = ViewerRender.previewFileCalls
       ELSE /\ previewFileCalls' = 0
            /\ UNCHANGED << useFallback, isAdobeSDKReady, sdkAttempts, pollTimer,
                            viewerIsLoading >>
    /\ SelectionEffect(PanelShown(show, cid)
                          /\ (~PanelShown(showInsights, clusterId)
                                \/ text # selectedText \/ cid # clusterId),
                       text, cid)

\* a re-render of the page made by a handler outside the reader
PageRenders(cid, doc) ==
    /\ ReaderEffects(cid, doc, selectedText, showInsights)
    /\ UNCHANGED << selectedText, showInsights, adobeClientId, textSelectionCalls,
                    sdkPresent >>

-----------------------------------------------------------------------------
(* KnowledgeGraph: steps *)

\* fetchGraphData() up to its await, run n times in one batch of updates
StartFetches(n, cid) ==
    /\ isLoading' = (IF n > 0 THEN TRUE ELSE isLoading)
    /\ error' = (IF n > 0 THEN Null ELSE error)
    /\ graphFetches' = (IF n = 0 THEN graphFetches
                        ELSE IF n = 1 THEN Append(graphFetches, cid)
                        ELSE graphFetches \o << cid, cid >>)

\* onClick={() => setShowKnowledgeGraph(true)} (page.tsx 212, 246)
OpenGraph ==
    /\ clusterId # Null
    /\ ~showKnowledgeGraph
    /\ LET fires == FetchEffectFires(TRUE, TRUE, ClusterProp(clusterId), graphData)
       IN  /\ fires => Len(graphFetches) < MaxFetches
           /\ StartFetches(IF fires THEN 1 ELSE 0, ClusterProp(clusterId))
    /\ showKnowledgeGraph' = TRUE
    /\ toasts' = << >>
    /\ lastOp' = Op("open")
    /\ PageRenders(clusterId, selectedDocument)
    /\ UNCHANGED << pageVars, uploadVars, graphData, graphCluster, selectedNode, zoom, pan,
                    animationId, scheduledFrames, dragListener, zoomInRun,
                    ticks, zoomClicks >>

\* onClose={() => setShowKnowledgeGraph(false)} (page.tsx 339)
CloseGraph ==
    /\ showKnowledgeGraph
    /\ showKnowledgeGraph' = FALSE
    /\ toasts' = << >>
    /\ lastOp' = Op("close")
    /\ PageRenders(clusterId, selectedDocument)
    /\ UNCHANGED << pageVars, uploadVars, graphData, graphCluster, isLoading, error,
                    selectedNode, zoom, pan, graphFetches, animationId,
                    scheduledFrames, dragListener, zoomInRun, ticks,
                    zoomClicks >>

\* a fetchGraphData that throws for a missing nodes array only and takes a
\* missing links array as empty
GraphFetchErrorIgnoresLinks(outcome) ==
    IF outcome.kind = "reject" THEN outcome.text
    ELSE IF outcome.kind = "status"
    THEN "Failed to fetch graph data: " \o outcome.text
    ELSE IF ~outcome.body.hasNodes
    THEN "Cannot read properties of undefined (reading 'map')"
    ELSE Null

\* the message of the error fetchGraphData's try block throws, Null if none:
\* a rejected fetch, !response.ok, or data.nodes.map / data.links.map of
\* undefined
GraphFetchError(outcome) ==
    IF outcome.kind = "reject" THEN outcome.text
    ELSE IF outcome.kind = "status"
    THEN "Failed to fetch graph data: " \o outcome.text
    ELSE IF ~outcome.body.hasNodes \/ ~outcome.body.hasLinks
    THEN "Cannot read properties of undefined (reading 'map')"
    ELSE Null

\* fetchGraphData from its await on: try, catch, finally and the re-render
FetchGraphResolves(outcomes, starts) ==
    \E k \in DOMAIN graphFetches, outcome \in outcomes :
    \E start \in [DOMAIN outcome.body.nodes -> starts] :
        LET message == GraphFetchError(outcome)
            data == ProcessGraph(outcome.body, start)
            eff == SimulationEffect(TRUE, data,
                                    SvgMounted(showKnowledgeGraph, data, FALSE),
                                    animationId, scheduledFrames)
        IN  /\ graphFetches' = SubSeq(graphFetches, 1, k - 1)
                                 \o SubSeq(graphFetches, k + 1, Len(graphFetches))
            /\ isLoading' = FALSE
            /\ lastOp' = FetchOp(outcome)
            /\ IF message = Null
               THEN /\ graphData' = data
                    /\ graphCluster' = graphFetches[k]
                    /\ toasts' = << "Knowledge graph loaded" >>
                    /\ animationId' = eff.animationId
                    /\ scheduledFrames' = eff.frames
                    /\ ticks' = 0
                    /\ UNCHANGED error
               ELSE /\ error' = message
                    /\ toasts' = << "Failed to load knowledge graph" >>
                    /\ UNCHANGED << graphData, graphCluster, animationId, scheduledFrames,
                                    ticks >>
            /\ UNCHANGED << pageVars, uploadVars, readerVars, showKnowledgeGraph,
                            selectedNode, zoom, pan, dragListener, zoomInRun,
                            zoomClicks >>

\* one requestAnimationFrame callback runs: simulate, then the re-render
Frame ==
    \E f \in scheduledFrames :
        LET rest == scheduledFrames \ {f}
            next == RequestFrame(rest)
            anim == IF f = animationId THEN next ELSE animationId
            data == Simulate(graphData)
            eff == SimulationEffect(graphData # NullData, data,
                                    SvgMounted(showKnowledgeGraph, data, isLoading),
                                    anim, rest \cup {next})
        IN  /\ Cardinality(rest) < MaxFrames
            /\ graphData' = data
            /\ UNCHANGED graphCluster
            /\ animationId' = eff.animationId
            /\ scheduledFrames' = eff.frames
            /\ ticks' = ticks + 1
            /\ toasts' = << >>
            /\ lastOp' = Op("frame")
            /\ UNCHANGED << pageVars, uploadVars, readerVars, showKnowledgeGraph, isLoading,
                            error, selectedNode, zoom, pan, graphFetches,
                            dragListener, zoomInRun, zoomClicks >>

\* onClick={() => handleNodeClick(node)} on a rendered circle
NodeClick ==
    /\ SvgMounted(showKnowledgeGraph, graphData, isLoading)
    /\ \E i \in RenderedNodes(graphData) :
          /\ selectedNode' = HandleNodeClick(graphData.nodes[i])
          /\ lastOp' = [Op("click") EXCEPT !.id = graphData.nodes[i].id]
    /\ toasts' = << >>
    /\ UNCHANGED << pageVars, uploadVars, readerVars, showKnowledgeGraph, graphData, graphCluster,
                    isLoading, error, zoom, pan, graphFetches, animationId,
                    scheduledFrames, dragListener, zoomInRun, ticks,
                    zoomClicks >>

\* onMouseDown on a rendered circle: the listeners keep this render's
\* handleNodeDrag, so its node, zoom and pan
MouseDown ==
    /\ SvgMounted(showKnowledgeGraph, graphData, isLoading)
    /\ dragListener = None
    /\ \E i \in RenderedNodes(graphData) :
          dragListener' = [kind |-> "listening", id |-> graphData.nodes[i].id,
                           zoom |-> zoom, pan |-> pan]
    /\ toasts' = << >>
    /\ lastOp' = Op("mousedown")
    /\ UNCHANGED << pageVars, uploadVars, readerVars, showKnowledgeGraph, graphData, graphCluster,
                    isLoading, error, selectedNode, zoom, pan, graphFetches,
                    animationId, scheduledFrames, zoomInRun, ticks,
                    zoomClicks >>

\* handleMouseMove -> handleNodeDrag(node, event)
MouseMove ==
    /\ dragListener # None
    /\ \E p \in PointerPositions, rect \in SvgRects :
          LET mounted == SvgMounted(showKnowledgeGraph, graphData, isLoading)
              x == PointerCoord(p.x, rect.left, dragListener.zoom, dragListener.pan.x)
              y == PointerCoord(p.y, rect.top, dragListener.zoom, dragListener.pan.y)
              data == IF mounted THEN DragUpdate(graphData, dragListener.id, x, y)
                      ELSE graphData
              eff == SimulationEffect(mounted, data, mounted,
                                      animationId, scheduledFrames)
          IN  /\ graphData' = data
              /\ UNCHANGED graphCluster
              /\ animationId' = eff.animationId
              /\ scheduledFrames' = eff.frames
              /\ lastOp' = IF mounted THEN DragOp(dragListener.id, p, rect)
                           ELSE Op("dragIgnored")
    /\ toasts' = << >>
    /\ UNCHANGED << pageVars, uploadVars, readerVars, showKnowledgeGraph, isLoading, error,
                    selectedNode, zoom, pan, graphFetches, dragListener,
                    zoomInRun, ticks, zoomClicks >>

\* handleMouseUp: both listeners are removed
MouseUp ==
    /\ dragListener # None
    /\ dragListener' = None
    /\ toasts' = << >>
    /\ lastOp' = Op("mouseup")
    /\ UNCHANGED << pageVars, uploadVars, readerVars, showKnowledgeGraph, graphData, graphCluster,
                    isLoading, error, selectedNode, zoom, pan, graphFetches,
                    animationId, scheduledFrames, zoomInRun, ticks,
                    zoomClicks >>

\* a resetGraph that keeps the selected node
ResetGraphKeepsSelection ==
    /\ showKnowledgeGraph
    /\ LET fires == FetchEffectFires(graphData # NullData, TRUE,
                                     ClusterProp(clusterId), NullData)
           n == IF fires THEN 2 ELSE 1
           eff == SimulationEffect(graphData # NullData, NullData, FALSE,
                                   animationId, scheduledFrames)
       IN  /\ Len(graphFetches) + n <= MaxFetches
           /\ StartFetches(n, ClusterProp(clusterId))
           /\ animationId' = eff.animationId
           /\ scheduledFrames' = eff.frames
    /\ graphData' = NullData
    /\ graphCluster' = Null
    /\ zoom' = One
    /\ pan' = Origin
    /\ zoomInRun' = 0
    /\ toasts' = << >>
    /\ lastOp' = Op("reset")
    /\ UNCHANGED << pageVars, uploadVars, readerVars, showKnowledgeGraph, dragListener,
                    ticks, zoomClicks, selectedNode >>

\* resetGraph, then the fetch effect of the re-render
ResetGraph ==
    /\ showKnowledgeGraph
    /\ LET fires == FetchEffectFires(graphData # NullData, TRUE,
                                     ClusterProp(clusterId), NullData)
           n == IF fires THEN 2 ELSE 1
           eff == SimulationEffect(graphData # NullData, NullData, FALSE,
                                   animationId, scheduledFrames)
       IN  /\ Len(graphFetches) + n <= MaxFetches
           /\ StartFetches(n, ClusterProp(clusterId))
           /\ animationId' = eff.animationId
           /\ scheduledFrames' = eff.frames
    /\ graphData' = NullData
    /\ graphCluster' = Null
    /\ selectedNode' = Null
    /\ zoom' = One
    /\ pan' = Origin
    /\ zoomInRun' = 0
    /\ toasts' = << >>
    /\ lastOp' = Op("reset")
    /\ UNCHANGED << pageVars, uploadVars, readerVars, showKnowledgeGraph, dragListener,
                    ticks, zoomClicks >>

ZoomIn ==
    /\ showKnowledgeGraph
    /\ zoom' = ZoomInUpdate(zoom)
    /\ zoomInRun' = IF zoomInRun >= 0 /\ zoomInRun < MaxZoomRun
                    THEN zoomInRun + 1 ELSE -1
    /\ zoomClicks' = Min(zoomClicks + 1, MaxZoomClicks)
    /\ toasts' = << >>
    /\ lastOp' = Op("zoomIn")
    /\ UNCHANGED << pageVars, uploadVars, readerVars, showKnowledgeGraph, graphData, graphCluster,
                    isLoading, error, selectedNode, pan, graphFetches,
                    animationId, scheduledFrames, dragListener, ticks >>

ZoomOut ==
    /\ showKnowledgeGraph
    /\ zoom' = ZoomOutUpdate(zoom)
    /\ zoomInRun' = IF ZoomOutUpdate(zoom) = One THEN 0 ELSE -1
    /\ zoomClicks' = Min(zoomClicks + 1, MaxZoomClicks)
    /\ toasts' = << >>
    /\ lastOp' = Op("zoomOut")
    /\ UNCHANGED << pageVars, uploadVars, readerVars, showKnowledgeGraph, graphData, graphCluster,
                    isLoading, error, selectedNode, pan, graphFetches,
                    animationId, scheduledFrames, dragListener, ticks >>

\* an upload finishes while the graph component is mounted: the page's
\* handleUploadComplete, then the fetch effect if the clusterId prop changed
UploadCompletes(clusters) ==
    \E c \in clusters :
        /\ HandleUploadComplete(c, << "a.pdf" >>)
        /\ LET fires == FetchEffectFires(ClusterProp(c) # ClusterProp(clusterId),
                                         showKnowledgeGraph, ClusterProp(c), graphData)
           IN  /\ fires => Len(graphFetches) < MaxFetches
               /\ StartFetches(IF fires THEN 1 ELSE 0, ClusterProp(c))
        /\ toasts' = << >>
        /\ lastOp' = Op("uploaded")
        /\ PageRenders(c, "a.pdf")
        /\ UNCHANGED << uploadVars, showKnowledgeGraph, graphData, graphCluster, selectedNode,
                        zoom, pan, animationId, scheduledFrames, dragListener,
                        zoomInRun, ticks, zoomClicks >>

-----------------------------------------------------------------------------
(* Specifications of the graph view *)

Init ==
    /\ clusterId = Null
    /\ documents = << >>
    /\ selectedDocument = Null
    /\ showKnowledgeGraph = FALSE
    /\ files = << >>
    /\ isUploading = FALSE
    /\ uploadProgress = 0
    /\ uploadError = NoMessage
    /\ uploadRequest = None
    /\ progressInterval = FALSE
    /\ graphData = NullData
    /\ graphCluster = Null
    /\ isLoading = FALSE
    /\ error = Null
    /\ selectedNode = Null
    /\ zoom = One
    /\ pan = Origin
    /\ graphFetches = << >>
    /\ animationId = 0
    /\ scheduledFrames = {}
    /\ dragListener = None
    /\ toasts = << >>
    /\ uploadCompleteCalls = << >>
    /\ lastOp = Op("init")
    /\ zoomInRun = 0
    /\ ticks = 0
    /\ zoomClicks = 0
    /\ selectedText = << >>
    /\ showInsights = FALSE
    /\ adobeClientId = FALSE
    /\ useFallback = FALSE
    /\ viewerListener = None
    /\ textSelectionCalls = << >>
    /\ viewerMounted = FALSE
    /\ sdkPresent = TRUE
    /\ isAdobeSDKReady = FALSE
    /\ sdkAttempts = 0
    /\ pollTimer = FALSE
    /\ viewerIsLoading = TRUE
    /\ previewFileCalls = 0
    /\ recommendations = << >>
    /\ isLoadingRecommendations = FALSE
    /\ panelError = Null
    /\ recommendationRequests = << >>
    /\ insights = NoInsights
    /\ isLoadingInsights = FALSE
    /\ insightsRequests = 0
    /\ podcastUrl = Null
    /\ isGeneratingPodcast = FALSE
    /\ podcastRequest = None

\* Layout: the view is opened on one cluster and stays open; the simulation
\* is followed for MaxTicks steps after the graph is loaded, with drags and
\* MaxZoomClicks zoom-in clicks in between (ZoomSpec has both zoom buttons)
Next ==
    \/ UploadCompletes({"c1"})
    \/ OpenGraph
    \/ FetchGraphResolves(LayoutOutcomes, StartPositions)
    \/ (ticks < MaxTicks /\ Frame)
    \/ MouseDown
    \/ MouseMove
    \/ MouseUp
    \/ (zoomClicks < MaxZoomClicks /\ ZoomIn)

Spec == Init /\ [][Next]_vars

\* Zoom: every zoom, reset, open and close click; no graph is ever loaded
ZoomNext ==
    \/ UploadCompletes({"c1"})
    \/ OpenGraph
    \/ CloseGraph
    \/ FetchGraphResolves({Rejected("Failed to fetch")}, StartPositions)
    \/ ResetGraph
    \/ ZoomIn
    \/ ZoomOut

ZoomSpec == Init /\ [][ZoomNext]_vars

\* the outcomes explored by the lifecycle specification: a graph, an empty
\* graph and every kind of failure
LifecycleOutcomes ==
    { Json(LinkedPair), Json(EmptyGraph), Json(MissingNodes), Json(MissingLinks),
      Rejected("Failed to fetch"), NotOk("Not Found") }

\* the start position the lifecycle specification draws for every node
LifecycleStarts == { [x |-> 300, y |-> 200] }

\* Lifecycle: uploads, open, close, reset, every outcome of a graph fetch and
\* drags on the nodes; the simulation is followed for MaxTicks steps after
\* each loaded graph
LifecycleNext ==
    \/ UploadCompletes({"c1"})
    \/ OpenGraph
    \/ CloseGraph
    \/ FetchGraphResolves(LifecycleOutcomes, LifecycleStarts)
    \/ (ticks < MaxTicks /\ Frame)
    \/ MouseDown
    \/ MouseMove
    \/ MouseUp
    \/ ResetGraph

LifecycleSpec == Init /\ [][LifecycleNext]_vars

\* Cluster: uploads for two clusters while the view is opened and closed and
\* its fetches succeed or fail
ClusterNext ==
    \/ UploadCompletes(ClusterIds)
    \/ OpenGraph
    \/ CloseGraph
    \/ FetchGraphResolves({Json(LinkedPair), Json(EmptyGraph), NotOk("Not Found")},
                          LifecycleStarts)

ClusterSpec == Init /\ [][ClusterNext]_vars

\* Reset: a graph is loaded for one of two clusters, a node is selected, the
\* view is zoomed, and reset is clicked at any moment; no tick is followed
ResetNext ==
    \/ UploadCompletes(ClusterIds)
    \/ OpenGraph
    \/ FetchGraphResolves({Json(LinkedPair), Json(EmptyGraph), NotOk("Not Found")},
                          LifecycleStarts)
    \/ NodeClick
    \/ ZoomIn
    \/ ZoomOut
    \/ ResetGraph

ResetSpec == Init /\ [][ResetNext]_vars

-----------------------------------------------------------------------------
(* KnowledgeGraph: handleNodeClick as an operation *)

\* the nodes handleNodeClick can be given: its parameter is any GraphNode
GraphNodeInputs ==
    { [id |-> id, x |-> 300 * Scale, y |-> 200 * Scale, vx |-> 0, vy |-> 0] :
        id \in {"a", "b", "node-1", "z"} }

\* the view is open on a loaded graph, with or without a selected node
SelectInit ==
    /\ clusterId = "c1"
    /\ documents = << "a.pdf" >>
    /\ selectedDocument = "a.pdf"
    /\ showKnowledgeGraph = TRUE
    /\ files = << >>
    /\ isUploading = FALSE
    /\ uploadProgress = 0
    /\ uploadError = NoMessage
    /\ uploadRequest = None
    /\ progressInterval = FALSE
    /\ \E body \in { LinkedPair, DanglingLink, MixedGraph, EmptyGraph } :
       \E start \in [DOMAIN body.nodes -> StartPositions] :
          /\ graphData = ProcessGraph(body, start)
          /\ graphCluster = "c1"
          /\ selectedNode \in {Null} \cup { ProcessGraph(body, start).nodes[i].id : i \in DOMAIN body.nodes }
    /\ isLoading = FALSE
    /\ error = Null
    /\ zoom = One
    /\ pan = Origin
    /\ graphFetches = << >>
    /\ animationId = 1
    /\ scheduledFrames = {1}
    /\ dragListener = None
    /\ toasts = << >>
    /\ uploadCompleteCalls = << >>
    /\ lastOp = Op("init")
    /\ zoomInRun = 0
    /\ ticks = 0
    /\ zoomClicks = 0
    /\ selectedText = << >>
    /\ showInsights = FALSE
    /\ adobeClientId = FALSE
    /\ useFallback = TRUE
    /\ viewerListener = None
    /\ textSelectionCalls = << >>
    /\ viewerMounted = TRUE
    /\ sdkPresent = TRUE
    /\ isAdobeSDKReady = FALSE
    /\ sdkAttempts = 0
    /\ pollTimer = FALSE
    /\ viewerIsLoading = FALSE
    /\ previewFileCalls = 0
    /\ recommendations = << >>
    /\ isLoadingRecommendations = FALSE
    /\ panelError = Null
    /\ recommendationRequests = << >>
    /\ insights = NoInsights
    /\ isLoadingInsights = FALSE
    /\ insightsRequests = 0
    /\ podcastUrl = Null
    /\ isGeneratingPodcast = FALSE
    /\ podcastRequest = None

\* handleNodeClick(node)
SelectNode ==
    \E node \in GraphNodeInputs :
        /\ selectedNode' = HandleNodeClick(node)
        /\ lastOp' = [Op("select") EXCEPT !.id = node.id]
        /\ toasts' = << >>
        /\ UNCHANGED << pageVars, uploadVars, readerVars, showKnowledgeGraph, graphData, graphCluster,
                        isLoading, error, zoom, pan, graphFetches, animationId,
                        scheduledFrames, dragListener, zoomInRun, ticks,
                        zoomClicks >>

SelectNext == SelectNode

SelectSpec == SelectInit /\ [][SelectNext]_vars

-----------------------------------------------------------------------------
(* DocumentUpload *)

PdfType == "application/pdf"

\* the File objects a drop or a file dialog can deliver
FileInputs ==
    { [name |-> "a.pdf", size |-> 1, type |-> PdfType],
      [name |-> "b.pdf", size |-> 2, type |-> PdfType],
      [name |-> "notes.txt", size |-> 3, type |-> "text/plain"],
      [name |-> "draft.pdf", size |-> 4, type |-> ""] }

FileA == [name |-> "a.pdf", size |-> 1, type |-> PdfType]

\* selectedFiles: up to MaxBatch files of one drop or one dialog, each file
\* once
Batches ==
    { batch \in UNION { [1..n -> FileInputs] : n \in 0..MaxBatch } :
        \A i, j \in DOMAIN batch : batch[i] = batch[j] => i = j }

\* values of Date.now()
ClockTimes == { 1000 }

\* how the upload request can end: a message is kept as its text fragments
UploadJson(c) == [kind |-> "json", text |-> << >>, cluster |-> c]
UploadEnds(kind, text) == [kind |-> kind, text |-> text, cluster |-> ""]
UploadOutcomes ==
    { UploadJson(c) : c \in ClusterIds }
    \cup { UploadEnds("reject", << "Failed to fetch" >>),
           UploadEnds("reject", << "NetworkError", " when attempting to fetch resource." >>),
           UploadEnds("reject", << "Load failed" >>),
           UploadEnds("status", << "Internal Server Error" >>),
           UploadEnds("html", << >>),
           UploadEnds("text", << >>),
           UploadEnds("badjson", << "Unexpected token < in JSON at position 0" >>) }

\* a filter that stops after the first PDF
PdfFilterFirstOnly(selected) ==
    IF \E i \in DOMAIN selected : selected[i].type = PdfType
    THEN << selected[CHOOSE i \in DOMAIN selected :
                /\ selected[i].type = PdfType
                /\ \A j \in 1..(i - 1) : selected[j].type # PdfType] >>
    ELSE << >>

\* selectedFiles.filter((file) => file.type === "application/pdf")
RECURSIVE PdfFilter(_)
PdfFilter(selected) ==
    IF selected = << >> THEN << >>
    ELSE IF Head(selected).type = PdfType
    THEN << Head(selected) >> \o PdfFilter(Tail(selected))
    ELSE PdfFilter(Tail(selected))

\* a handleFiles that raises a single toast when nothing is left
HandleFilesToastsOnce(selected) ==
    IF Len(PdfFilter(selected)) = 0 THEN << "No valid files" >>
    ELSE IF Len(PdfFilter(selected)) # Len(selected)
    THEN << "Invalid files detected" >> ELSE << >>

\* the toasts handleFiles raises for a batch
HandleFilesToasts(selected) ==
    (IF Len(PdfFilter(selected)) # Len(selected)
     THEN << "Invalid files detected" >> ELSE << >>)
    \o (IF Len(PdfFilter(selected)) = 0 THEN << "No valid files" >> ELSE << >>)

\* newFiles of handleFiles
NewFilesFirstUploading(pdfFiles) ==
    [i \in DOMAIN pdfFiles |->
        [name |-> pdfFiles[i].name, size |-> pdfFiles[i].size,
         status |-> IF i = 1 THEN "uploading" ELSE "queued"]]
NewFiles(pdfFiles) ==
    [i \in DOMAIN pdfFiles |->
        [name |-> pdfFiles[i].name, size |-> pdfFiles[i].size, status |-> "uploading"]]

FileNames(list) == [i \in DOMAIN list |-> list[i].name]

\* a status update that reaches the first file only
WithStatusFirstOnly(prev, status) ==
    [i \in DOMAIN prev |-> IF i = 1 THEN [prev[i] EXCEPT !.status = status] ELSE prev[i]]

\* prev.map((file) => ({ ...file, status }))
WithStatus(prev, status) == [i \in DOMAIN prev |-> [prev[i] EXCEPT !.status = status]]

\* message.includes(part)
Includes(message, part) == \E i \in DOMAIN message : message[i] = part

\* the message of the error thrown inside the inner try, NoMessage if none
UploadFetchError(outcome) ==
    CASE outcome.kind = "reject" -> outcome.text
      [] outcome.kind = "status" -> << "Upload failed: " >> \o outcome.text
      [] outcome.kind = "html" -> << "API_NOT_AVAILABLE" >>
      [] outcome.kind = "text" -> << "Server returned non-JSON response" >>
      [] outcome.kind = "badjson" -> outcome.text
      [] OTHER -> NoMessage

\* a demo mode that only the API_NOT_AVAILABLE marker activates
DemoModeOnMarkerOnly(message) == Includes(message, "API_NOT_AVAILABLE")

\* the condition of the inner catch that activates demo mode
DemoMode(message) ==
    \/ Includes(message, "API_NOT_AVAILABLE")
    \/ Includes(message, "Failed to fetch")
    \/ Includes(message, "NetworkError")

\* what uploadFiles has after the inner try/catch: a result or a thrown error
UploadResult(outcome, now) ==
    LET message == UploadFetchError(outcome)
    IN  IF message = NoMessage
        THEN [ok |-> TRUE, demo |-> FALSE, cluster |-> outcome.cluster, message |-> NoMessage]
        ELSE IF DemoMode(message)
        THEN [ok |-> TRUE, demo |-> TRUE,
              cluster |-> "demo_cluster_" \o ToString(now), message |-> NoMessage]
        ELSE [ok |-> FALSE, demo |-> FALSE, cluster |-> "", message |-> message]

\* handleFiles(selectedFiles) with uploadFiles(pdfFiles) up to its await; the
\* drop area takes no pointer events while isUploading
SubmitFrom(batches) ==
    /\ ~isUploading
    /\ \E selected \in batches :
          LET pdfFiles == PdfFilter(selected)
          IN  /\ toasts' = HandleFilesToasts(selected)
              /\ lastOp' = [Op("submit") EXCEPT !.batch = selected]
              /\ IF Len(pdfFiles) = 0
                 THEN UNCHANGED << files, uploadError, isUploading,
                                   uploadProgress, progressInterval, uploadRequest >>
                 ELSE /\ files' = NewFiles(pdfFiles)
                      /\ uploadError' = NoMessage
                      /\ isUploading' = TRUE
                      /\ uploadProgress' = 0
                      /\ progressInterval' = TRUE
                      /\ uploadRequest' = [kind |-> "pending", files |-> pdfFiles]
    /\ uploadCompleteCalls' = << >>
    /\ UNCHANGED << pageVars, graphVars, readerVars >>

Submit == SubmitFrom(Batches)

\* a setInterval callback that stops at 100
ProgressTickToHundred ==
    /\ progressInterval
    /\ IF uploadProgress >= 100
       THEN progressInterval' = FALSE /\ UNCHANGED uploadProgress
       ELSE uploadProgress' = uploadProgress + 10 /\ UNCHANGED progressInterval
    /\ toasts' = << >>
    /\ uploadCompleteCalls' = << >>
    /\ lastOp' = Op("progress")
    /\ UNCHANGED << pageVars, graphVars, readerVars, files, isUploading, uploadError,
                    uploadRequest >>

\* the setInterval callback of uploadFiles
ProgressTick ==
    /\ progressInterval
    /\ IF uploadProgress >= 90
       THEN progressInterval' = FALSE /\ UNCHANGED uploadProgress
       ELSE uploadProgress' = uploadProgress + 10 /\ UNCHANGED progressInterval
    /\ toasts' = << >>
    /\ uploadCompleteCalls' = << >>
    /\ lastOp' = Op("progress")
    /\ UNCHANGED << pageVars, graphVars, readerVars, files, isUploading, uploadError,
                    uploadRequest >>

\* uploadFiles from its await on: both try blocks, catch, finally, the
\* page's handleUploadComplete and the fetch effect of a graph view that is
\* open
UploadResolvesWith(outcomes) ==
    /\ uploadRequest # None
    /\ \E outcome \in outcomes, now \in ClockTimes :
          LET result == UploadResult(outcome, now)
              names == FileNames(uploadRequest.files)
          IN  /\ lastOp' = [Op("uploadResolved") EXCEPT
                               !.id = outcome.kind, !.text = outcome.text,
                               !.cluster = outcome.cluster,
                               !.batch = uploadRequest.files]
              /\ IF result.ok
                 THEN /\ files' = WithStatus(files, "success")
                      /\ toasts' = (IF result.demo THEN << "Demo Mode Active" >>
                                    ELSE << >>) \o << "Upload successful" >>
                      /\ uploadCompleteCalls' =
                            << [clusterId |-> result.cluster, documents |-> names] >>
                      /\ HandleUploadComplete(result.cluster, names)
                      /\ PageRenders(result.cluster,
                                     IF Len(names) > 0 THEN names[1]
                                     ELSE selectedDocument)
                      /\ LET fires ==
                                FetchEffectFires(
                                    ClusterProp(result.cluster) # ClusterProp(clusterId),
                                    showKnowledgeGraph, ClusterProp(result.cluster),
                                    graphData)
                         IN  /\ fires => Len(graphFetches) < MaxFetches
                             /\ StartFetches(IF fires THEN 1 ELSE 0,
                                             ClusterProp(result.cluster))
                      /\ UNCHANGED uploadError
                 ELSE /\ uploadError' = result.message
                      /\ files' = WithStatus(files, "error")
                      /\ toasts' = << "Upload failed" >>
                      /\ uploadCompleteCalls' = << >>
                      /\ UNCHANGED << pageVars, readerVars, isLoading, error,
                                      graphFetches >>
    /\ progressInterval' = FALSE
    /\ uploadProgress' = 100
    /\ isUploading' = FALSE
    /\ uploadRequest' = None
    /\ UNCHANGED << showKnowledgeGraph, graphData, graphCluster, selectedNode,
                    zoom, pan, animationId, scheduledFrames, dragListener,
                    zoomInRun, ticks, zoomClicks >>

UploadResolves == UploadResolvesWith(UploadOutcomes)

\* a removeFile that puts the files it keeps back to uploading
RemoveFileRequeues ==
    /\ ~isUploading
    /\ \E index \in DOMAIN files :
          files' = WithStatus(SubSeq(files, 1, index - 1)
                                \o SubSeq(files, index + 1, Len(files)), "uploading")
    /\ toasts' = << >>
    /\ uploadCompleteCalls' = << >>
    /\ lastOp' = Op("remove")
    /\ UNCHANGED << pageVars, graphVars, readerVars, isUploading, uploadProgress,
                    uploadError, uploadRequest, progressInterval >>

\* removeFile(index); the button is rendered while !isUploading
RemoveFile ==
    /\ ~isUploading
    /\ \E index \in DOMAIN files :
          files' = SubSeq(files, 1, index - 1) \o SubSeq(files, index + 1, Len(files))
    /\ toasts' = << >>
    /\ uploadCompleteCalls' = << >>
    /\ lastOp' = Op("remove")
    /\ UNCHANGED << pageVars, graphVars, readerVars, isUploading, uploadProgress,
                    uploadError, uploadRequest, progressInterval >>

\* clearAll; the button is rendered while files.length > 0
ClearAll ==
    /\ Len(files) > 0
    /\ files' = << >>
    /\ uploadError' = NoMessage
    /\ uploadProgress' = 0
    /\ toasts' = << >>
    /\ uploadCompleteCalls' = << >>
    /\ lastOp' = Op("clear")
    /\ UNCHANGED << pageVars, graphVars, readerVars, isUploading, uploadRequest,
                    progressInterval >>

UploadNext ==
    \/ Submit
    \/ ProgressTick
    \/ UploadResolves
    \/ RemoveFile
    \/ ClearAll

UploadSpec == Init /\ [][UploadNext]_vars

-----------------------------------------------------------------------------
(* PDFViewer and InsightsPanel *)

\* a text is a sequence of tokens: white space characters and runs of text
\* that neither begin nor end with white space
WhiteSpace == { " ", "\t", "\n" }

\* String.prototype.trim()
RECURSIVE TrimStart(_)
TrimStart(text) ==
    IF text # << >> /\ Head(text) \in WhiteSpace THEN TrimStart(Tail(text)) ELSE text
RECURSIVE TrimEnd(_)
TrimEnd(text) ==
    IF text # << >> /\ text[Len(text)] \in WhiteSpace
    THEN TrimEnd(SubSeq(text, 1, Len(text) - 1)) ELSE text
TrimStartOnly(text) == TrimStart(text)
Trim(text) == TrimEnd(TrimStart(text))

\* the events the embedded viewer can deliver: event.type and
\* event.data?.selection?.text, which may be missing
EventTexts ==
    { << >>, << " " >>, << "\n", "\t" >>, << "alpha" >>, << "beta" >>,
      << " ", "alpha", " ", "beta", "\n" >> }
ViewerEvents ==
    { [type |-> t, hasText |-> TRUE, text |-> x] :
        t \in {"SELECTION_END", "PREVIEW_PAGE_CLICK"}, x \in EventTexts }
    \cup { [type |-> t, hasText |-> FALSE, text |-> << >>] :
            t \in {"SELECTION_END", "PREVIEW_PAGE_CLICK"} }

\* the texts of the two sample buttons of FallbackPDFViewer
SampleTexts ==
    << << "Machine learning algorithms have revolutionized data analysis by enabling computers to learn patterns from large datasets without explicit programming." >>,
       << "The integration of artificial intelligence in business processes has led to significant improvements in efficiency and decision-making capabilities." >> >>

\* the EVENT_LISTENER callback: the onTextSelection calls it makes
EventCallback(event, documentName) ==
    IF event.type = "SELECTION_END" /\ event.hasText /\ event.text # << >>
    THEN IF Trim(event.text) # << >>
         THEN << [text |-> Trim(event.text), documentName |-> documentName] >>
         ELSE << >>
    ELSE << >>

\* the answers of POST /api/v1/recommendations: n snippets for the query, an
\* answer that is not JSON, a status that is not ok, a network error
SnippetsFor(query, n) ==
    [i \in 1..n |-> [document_name |-> IF i = 1 THEN "b.pdf" ELSE "a.pdf",
                     rank |-> i, query |-> query]]
MockRecommendations ==
    << [document_name |-> "ML_Fundamentals.pdf", rank |-> 1, query |-> << >>],
       [document_name |-> "Data_Analysis_Guide.pdf", rank |-> 2, query |-> << >>],
       [document_name |-> "AI_Applications.pdf", rank |-> 3, query |-> << >>] >>
RecommendationOutcomes ==
    { [kind |-> "json", count |-> n, text |-> ""] : n \in {0, 1, 6} }
    \cup { [kind |-> "notJson", count |-> 0, text |-> ""],
           [kind |-> "status", count |-> 0, text |-> "Internal Server Error"],
           [kind |-> "reject", count |-> 0, text |-> "Failed to fetch"] }

\* fetchRecommendations from its await on: the value given to
\* setRecommendations, or the list as it is when the request fails
RecommendationsUpdateIfCurrent(prev, request, outcome) ==
    CASE outcome.kind = "notJson" /\ request.query = selectedText -> MockRecommendations
      [] outcome.kind = "json" /\ request.query = selectedText ->
            SubSeq(SnippetsFor(request.query, outcome.count), 1, Min(5, outcome.count))
      [] OTHER -> prev
RecommendationsUpdate(prev, request, outcome) ==
    CASE outcome.kind = "notJson" -> MockRecommendations
      [] outcome.kind = "json" ->
            SubSeq(SnippetsFor(request.query, outcome.count), 1, Min(5, outcome.count))
      [] OTHER -> prev

\* the message fetchRecommendations' catch gives to setError, Null if none
RecommendationsError(outcome) ==
    CASE outcome.kind = "status" -> "Failed to fetch recommendations: " \o outcome.text
      [] outcome.kind = "reject" -> outcome.text
      [] OTHER -> Null

\* handleTextSelection(text, documentName), the page's re-render and its effects
TextSelected(calls) ==
    /\ textSelectionCalls' = calls
    /\ IF calls = << >>
       THEN /\ previewFileCalls' = 0
            /\ UNCHANGED << selectedText, showInsights, useFallback, viewerListener,
                            viewerMounted, isAdobeSDKReady, sdkAttempts, pollTimer,
                            viewerIsLoading, panelVars >>
       ELSE /\ selectedText' = calls[1].text
            /\ showInsights' = TRUE
            /\ IF calls[1].text = selectedText /\ showInsights
               THEN /\ previewFileCalls' = 0
                    /\ UNCHANGED << useFallback, viewerListener, viewerMounted,
                                    isAdobeSDKReady, sdkAttempts, pollTimer,
                                    viewerIsLoading, panelVars >>
               ELSE ReaderEffects(clusterId, selectedDocument, calls[1].text, TRUE)
    /\ toasts' = << >>
    /\ UNCHANGED << pageVars, uploadVars, graphVars, adobeClientId, sdkPresent >>

\* previewFile has resolved and registerCallback has run
ViewerReady ==
    /\ viewerMounted
    /\ adobeClientId /\ ~useFallback /\ isAdobeSDKReady
    /\ viewerListener = None
    /\ viewerListener' = [kind |-> "registered", documentName |-> selectedDocument]
    /\ viewerIsLoading' = FALSE
    /\ previewFileCalls' = 0
    /\ toasts' = << >>
    /\ lastOp' = Op("viewerReady")
    /\ UNCHANGED << pageVars, uploadVars, graphVars, selectedText, showInsights,
                    adobeClientId, useFallback, textSelectionCalls, sdkPresent,
                    viewerMounted, isAdobeSDKReady, sdkAttempts, pollTimer,
                    panelVars >>

\* the initialisation throws or its 10 s timer fires: setUseFallback(true),
\* setIsLoading(false)
ViewerFails ==
    /\ viewerMounted
    /\ adobeClientId /\ ~useFallback /\ isAdobeSDKReady
    /\ viewerListener = None
    /\ useFallback' = TRUE
    /\ viewerIsLoading' = FALSE
    /\ previewFileCalls' = 0
    /\ toasts' = << >>
    /\ lastOp' = Op("viewerFails")
    /\ UNCHANGED << pageVars, uploadVars, graphVars, selectedText, showInsights,
                    adobeClientId, viewerListener, textSelectionCalls, sdkPresent,
                    viewerMounted, isAdobeSDKReady, sdkAttempts, pollTimer,
                    panelVars >>

\* a checkAdobeSDK() that gives up without setIsLoading(false)
PollCheckKeepsLoading ==
    /\ pollTimer
    /\ IF sdkPresent
       THEN /\ isAdobeSDKReady' = TRUE
            /\ pollTimer' = FALSE
            /\ viewerIsLoading' = TRUE
            /\ previewFileCalls' = 1
            /\ UNCHANGED << sdkAttempts, useFallback >>
       ELSE /\ sdkAttempts' = sdkAttempts + 1
            /\ previewFileCalls' = 0
            /\ IF sdkAttempts + 1 >= MaxAttempts
               THEN /\ useFallback' = TRUE
                    /\ pollTimer' = FALSE
                    /\ UNCHANGED viewerIsLoading
               ELSE UNCHANGED << useFallback, viewerIsLoading, pollTimer >>
            /\ UNCHANGED isAdobeSDKReady
    /\ toasts' = << >>
    /\ lastOp' = Op("pollCheck")
    /\ UNCHANGED << pageVars, uploadVars, graphVars, selectedText, showInsights,
                    adobeClientId, viewerListener, textSelectionCalls, sdkPresent,
                    viewerMounted, panelVars >>

\* the setTimeout of the polling effect fires: checkAdobeSDK()
PollCheck ==
    /\ pollTimer
    /\ IF sdkPresent
       THEN /\ isAdobeSDKReady' = TRUE
            /\ pollTimer' = FALSE
            /\ viewerIsLoading' = TRUE
            /\ previewFileCalls' = 1
            /\ UNCHANGED << sdkAttempts, useFallback >>
       ELSE /\ sdkAttempts' = sdkAttempts + 1
            /\ previewFileCalls' = 0
            /\ IF sdkAttempts + 1 >= MaxAttempts
               THEN /\ useFallback' = TRUE
                    /\ viewerIsLoading' = FALSE
                    /\ pollTimer' = FALSE
               ELSE UNCHANGED << useFallback, viewerIsLoading, pollTimer >>
            /\ UNCHANGED isAdobeSDKReady
    /\ toasts' = << >>
    /\ lastOp' = Op("pollCheck")
    /\ UNCHANGED << pageVars, uploadVars, graphVars, selectedText, showInsights,
                    adobeClientId, viewerListener, textSelectionCalls, sdkPresent,
                    viewerMounted, panelVars >>

\* viewer.js has run: window.AdobeDC is defined
SdkLoads ==
    /\ ~sdkPresent
    /\ sdkPresent' = TRUE
    /\ toasts' = << >>
    /\ lastOp' = Op("sdkLoads")
    /\ UNCHANGED << pageVars, uploadVars, graphVars, selectedText, showInsights,
                    adobeClientId, textSelectionCalls, viewerVars, panelVars >>

\* the page is left: PDFViewer unmounts and the cleanups of its effects run
UnmountViewer ==
    /\ viewerMounted
    /\ viewerMounted' = FALSE
    /\ pollTimer' = FALSE
    /\ viewerListener' = None
    /\ previewFileCalls' = 0
    /\ toasts' = << >>
    /\ lastOp' = Op("unmount")
    /\ UNCHANGED << pageVars, uploadVars, graphVars, selectedText, showInsights,
                    adobeClientId, textSelectionCalls, sdkPresent, useFallback,
                    isAdobeSDKReady, sdkAttempts, viewerIsLoading, panelVars >>

\* the embedded viewer delivers an event to the registered callback
ViewerEvent ==
    /\ viewerListener # None
    /\ \E event \in ViewerEvents :
          /\ TextSelected(EventCallback(event, viewerListener.documentName))
          /\ lastOp' = [Op("viewerEvent") EXCEPT !.event = event]

\* a sample button of FallbackPDFViewer
SampleClickOn(buttons) ==
    /\ viewerMounted
    /\ ~adobeClientId \/ useFallback
    /\ \E k \in buttons :
          /\ TextSelected(<< [text |-> SampleTexts[k],
                              documentName |-> selectedDocument] >>)
          /\ lastOp' = [Op("sample") EXCEPT !.text = SampleTexts[k]]

SampleClick == SampleClickOn(DOMAIN SampleTexts)

\* fetchRecommendations from its await on
RecommendationsResolveWith(outcomes) ==
    \E k \in DOMAIN recommendationRequests, outcome \in outcomes :
        /\ recommendationRequests' =
              SubSeq(recommendationRequests, 1, k - 1)
                \o SubSeq(recommendationRequests, k + 1, Len(recommendationRequests))
        /\ recommendations' =
              RecommendationsUpdate(recommendations, recommendationRequests[k], outcome)
        /\ panelError' = IF RecommendationsError(outcome) # Null
                         THEN RecommendationsError(outcome) ELSE panelError
        /\ isLoadingRecommendations' = FALSE
        /\ toasts' = << >>
        /\ lastOp' = [Op("recommendations") EXCEPT
                         !.id = outcome.kind, !.x = outcome.count,
                         !.request = recommendationRequests[k]]
        /\ UNCHANGED << pageVars, uploadVars, graphVars, selectedText,
                        showInsights, adobeClientId, textSelectionCalls,
                        sdkPresent, viewerVars, insightVars, podcastVars >>

RecommendationsResolve == RecommendationsResolveWith(RecommendationOutcomes)

\* the answers of POST /api/v1/insights: JSON data, an answer that is not
\* JSON, a status that is not ok, a network error
InsightsOutcomes ==
    { [kind |-> "json", count |-> 0, text |-> ""],
      [kind |-> "notJson", count |-> 0, text |-> ""],
      [kind |-> "status", count |-> 0, text |-> "Internal Server Error"],
      [kind |-> "reject", count |-> 0, text |-> "Failed to fetch"] }

\* a fetchInsights whose catch raises a toast
InsightsToastsOnFailure(outcome) ==
    CASE outcome.kind = "notJson" -> << "Insights generated (Demo)" >>
      [] outcome.kind = "json" -> << "Insights generated" >>
      [] OTHER -> << "Insights failed" >>

\* the toasts of fetchInsights from its await on: its catch only logs
InsightsToasts(outcome) ==
    CASE outcome.kind = "notJson" -> << "Insights generated (Demo)" >>
      [] outcome.kind = "json" -> << "Insights generated" >>
      [] OTHER -> << >>

\* fetchInsights from its await on
InsightsResolve(outcomes) ==
    \E outcome \in outcomes :
        /\ insightsRequests > 0
        /\ insightsRequests' = insightsRequests - 1
        /\ insights' =
              CASE outcome.kind = "notJson" -> [kind |-> "mock"]
                [] outcome.kind = "json" -> [kind |-> "data"]
                [] OTHER -> insights
        /\ isLoadingInsights' = FALSE
        /\ toasts' = InsightsToasts(outcome)
        /\ lastOp' = [Op("insights") EXCEPT !.id = outcome.kind]
        /\ UNCHANGED << pageVars, uploadVars, graphVars, selectedText,
                        showInsights, adobeClientId, textSelectionCalls,
                        sdkPresent, viewerVars, recommendationVars, podcastVars >>

\* the answers of POST /api/v1/podcast/generate: an audio url, a status that
\* is not ok, a network error, a body that is not JSON
PodcastOutcomes ==
    { [kind |-> "json", count |-> 0, text |-> "/audio/1.mp3"],
      [kind |-> "status", count |-> 0, text |-> "Internal Server Error"],
      [kind |-> "reject", count |-> 0, text |-> "Failed to fetch"],
      [kind |-> "badjson", count |-> 0, text |-> "Unexpected token < in JSON at position 0"] }

\* generatePodcast() up to its await; the button is disabled while
\* isGeneratingPodcast, without selected text and without recommendations
GeneratePodcast ==
    /\ PanelShown(showInsights, clusterId)
    /\ selectedText # << >>
    /\ recommendations # << >>
    /\ ~isGeneratingPodcast
    /\ isGeneratingPodcast' = TRUE
    /\ podcastRequest' = [kind |-> "pending", query |-> selectedText]
    /\ toasts' = << >>
    /\ lastOp' = Op("generatePodcast")
    /\ UNCHANGED << pageVars, uploadVars, graphVars, selectedText, showInsights,
                    adobeClientId, textSelectionCalls, sdkPresent, viewerVars,
                    recommendationVars, insightVars, podcastUrl >>

\* generatePodcast from its await on
PodcastResolves ==
    /\ podcastRequest # None
    /\ \E outcome \in PodcastOutcomes :
          /\ podcastUrl' = (IF outcome.kind = "json" THEN outcome.text ELSE podcastUrl)
          /\ toasts' = (IF outcome.kind = "json" THEN << "Podcast generated" >>
                        ELSE << "Podcast generation failed" >>)
          /\ lastOp' = [Op("podcast") EXCEPT !.id = outcome.kind]
    /\ isGeneratingPodcast' = FALSE
    /\ podcastRequest' = None
    /\ UNCHANGED << pageVars, uploadVars, graphVars, selectedText, showInsights,
                    adobeClientId, textSelectionCalls, sdkPresent, viewerVars,
                    recommendationVars, insightVars >>

\* the page after an upload of a.pdf and b.pdf has completed, but for the
\* state of PDFViewer
PageLoaded ==
    /\ clusterId = "c1"
    /\ documents = << "a.pdf", "b.pdf" >>
    /\ selectedDocument = "a.pdf"
    /\ showKnowledgeGraph = FALSE
    /\ files = << [name |-> "a.pdf", size |-> 1, status |-> "success"],
                  [name |-> "b.pdf", size |-> 2, status |-> "success"] >>
    /\ isUploading = FALSE
    /\ uploadProgress = 100
    /\ uploadError = NoMessage
    /\ uploadRequest = None
    /\ progressInterval = FALSE
    /\ graphData = NullData
    /\ graphCluster = Null
    /\ isLoading = FALSE
    /\ error = Null
    /\ selectedNode = Null
    /\ zoom = One
    /\ pan = Origin
    /\ graphFetches = << >>
    /\ animationId = 0
    /\ scheduledFrames = {}
    /\ dragListener = None
    /\ toasts = << "Upload successful" >>
    /\ uploadCompleteCalls =
          << [clusterId |-> "c1", documents |-> << "a.pdf", "b.pdf" >>] >>
    /\ lastOp = Op("init")
    /\ zoomInRun = 0
    /\ ticks = 0
    /\ zoomClicks = 0
    /\ selectedText = << >>
    /\ showInsights = FALSE
    /\ viewerListener = None
    /\ textSelectionCalls = << >>
    /\ viewerMounted = TRUE
    /\ recommendations = << >>
    /\ isLoadingRecommendations = FALSE
    /\ panelError = Null
    /\ recommendationRequests = << >>
    /\ insights = NoInsights
    /\ isLoadingInsights = FALSE
    /\ insightsRequests = 0
    /\ podcastUrl = Null
    /\ isGeneratingPodcast = FALSE
    /\ podcastRequest = None

\* the viewer has mounted: without client id it is in fallback mode; with one
\* checkAdobeSDK() has found the SDK and previewFile has been called
ReaderInit ==
    /\ PageLoaded
    /\ adobeClientId \in BOOLEAN
    /\ useFallback = ~adobeClientId
    /\ sdkPresent = TRUE
    /\ isAdobeSDKReady = adobeClientId
    /\ sdkAttempts = 0
    /\ pollTimer = FALSE
    /\ viewerIsLoading = adobeClientId
    /\ previewFileCalls = (IF adobeClientId THEN 1 ELSE 0)

\* the viewer has mounted with a client id before viewer.js has run:
\* checkAdobeSDK() has counted one attempt and set its timer
PollInit ==
    /\ PageLoaded
    /\ adobeClientId = TRUE
    /\ useFallback = FALSE
    /\ sdkPresent = FALSE
    /\ isAdobeSDKReady = FALSE
    /\ sdkAttempts = 1
    /\ pollTimer = TRUE
    /\ viewerIsLoading = TRUE
    /\ previewFileCalls = 0

\* onClick={() => setSelectedDocument(doc)} on a card of the sidebar; the
\* page has not been left
SelectDocument ==
    /\ viewerMounted
    /\ \E i \in DOMAIN documents :
          /\ documents[i] # selectedDocument
          /\ selectedDocument' = documents[i]
          /\ PageRenders(clusterId, documents[i])
    /\ toasts' = << >>
    /\ lastOp' = Op("selectDocument")
    /\ UNCHANGED << clusterId, documents, uploadVars, graphVars >>

\* handleSnippetClick(snippet) on a card of the recommendations list, with
\* the page's handleNavigateToDocument
NavigateToDocument ==
    /\ PanelShown(showInsights, clusterId)
    /\ selectedText # << >>
    /\ ~isLoadingRecommendations
    /\ \E i \in DOMAIN recommendations :
          LET doc == recommendations[i].document_name
          IN  /\ selectedDocument' = doc
              /\ IF doc = selectedDocument
                 THEN UNCHANGED readerVars
                 ELSE PageRenders(clusterId, doc)
              /\ lastOp' = [Op("navigate") EXCEPT !.id = doc]
    /\ toasts' = << "Navigating to document" >>
    /\ UNCHANGED << clusterId, documents, uploadVars, graphVars >>

\* the insights request fails on the network
InsightsRejected == { o \in InsightsOutcomes : o.kind = "reject" }

\* Reader: one document is viewed, texts are selected in the viewer or by the
\* sample buttons, and the requests of the panel resolve in any order
ReaderNext ==
    \/ ViewerReady
    \/ ViewerFails
    \/ ViewerEvent
    \/ SampleClick
    \/ RecommendationsResolve
    \/ InsightsResolve(InsightsRejected)

ReaderSpec == ReaderInit /\ [][ReaderNext]_vars

\* Panel: a file is uploaded without a backend or with one that fails, a text
\* is selected by a sample button, a podcast is asked for, the graph view is
\* opened, and every request resolves in any order, well or not
PanelNext ==
    \/ SubmitFrom({ << FileA >> })
    \/ UploadResolvesWith({ o \in UploadOutcomes :
                               \/ o.kind = "status"
                               \/ o.text = << "Failed to fetch" >> })
    \/ SampleClickOn({1})
    \/ RecommendationsResolveWith({ o \in RecommendationOutcomes :
                                       o.kind # "json" \/ o.count = 1 })
    \/ InsightsResolve(InsightsOutcomes)
    \/ GeneratePodcast
    \/ PodcastResolves
    \/ OpenGraph
    \/ FetchGraphResolves({Json(EmptyGraph), NotOk("Not Found")}, LifecycleStarts)

PanelSpec == Init /\ [][PanelNext]_vars

\* Navigation: texts are selected in the fallback viewer, the recommendation
\* requests resolve, snippets and sidebar cards are clicked
NavNext ==
    \/ ViewerFails
    \/ SampleClick
    \/ RecommendationsResolve
    \/ SelectDocument
    \/ NavigateToDocument
    \/ InsightsResolve(InsightsRejected)

NavSpec == ReaderInit /\ [][NavNext]_vars

\* Polling: the viewer waits for the SDK, which may load at any moment or
\* never; the page may be left at any moment
PollNext ==
    \/ PollCheck
    \/ SdkLoads
    \/ ViewerReady
    \/ ViewerFails
    \/ ViewerEvent
    \/ SelectDocument
    \/ UnmountViewer

\* a timer that is set fires
PollSpec == PollInit /\ [][PollNext]_vars /\ WF_vars(PollCheck)

-----------------------------------------------------------------------------
(* Claims about the layout and the drag (specification Spec) *)

InBounds(node) ==
    /\ MinX * Scale <= node.x /\ node.x <= MaxX * Scale
    /\ MinY * Scale <= node.y /\ node.y <= MaxY * Scale

\* C1: after every simulation tick every node's position satisfies
\* 20 <= x <= 580 and 20 <= y <= 380, whatever the positions and velocities
\* were before the tick, positions set by a drag included
C1_TickClampsPositions ==
    (lastOp.op = "frame" /\ graphData # NullData)
        => \A i \in DOMAIN graphData.nodes : InBounds(graphData.nodes[i])

\* a tick has just pulled a node that a drag had put outside the canvas back
\* onto its right and top edges
C1_Witness ==
    /\ lastOp.op = "frame"
    /\ graphData # NullData
    /\ \E i \in DOMAIN graphData.nodes :
          /\ graphData.nodes[i].x = MaxX * Scale
          /\ graphData.nodes[i].y = MinY * Scale

\* v is a / (n/d) truncated toward zero
IsQuotient(v, a, z) ==
    /\ Abs(v) * z.n <= Abs(a) * z.d
    /\ Abs(a) * z.d < (Abs(v) + 1) * z.n
    /\ (v > 0 => a > 0) /\ (v < 0 => a < 0)

RECURSIVE SumOver(_, _, _)
\* term(1) + ... + term(n), from index k on
SumOver(term(_), k, n) ==
    IF k > n THEN 0 ELSE term(k) + SumOver(term, k + 1, n)

\* the x and y components of the force the code adds to node i in one tick
NetForce(data, i) ==
    LET nodes == data.nodes
        links == data.links
        me == nodes[i]
        Dist(a, b) == Distance(b.x - a.x, b.y - a.y)
        RepX(j) == IF nodes[j].id # me.id
                   THEN RepulsionForce(me.x - nodes[j].x, Dist(nodes[j], me)) ELSE 0
        RepY(j) == IF nodes[j].id # me.id
                   THEN RepulsionForce(me.y - nodes[j].y, Dist(nodes[j], me)) ELSE 0
        Src(k) == FindNode(nodes, links[k].source)
        Tgt(k) == FindNode(nodes, links[k].target)
        Pull(k, dc) == LinkForce(dc, Dist(nodes[Src(k)], nodes[Tgt(k)]))
        LinkX(k) == IF Src(k) = 0 \/ Tgt(k) = 0 THEN 0
                    ELSE LET f == Pull(k, nodes[Tgt(k)].x - nodes[Src(k)].x)
                         IN  (IF Src(k) = i THEN f ELSE 0) - (IF Tgt(k) = i THEN f ELSE 0)
        LinkY(k) == IF Src(k) = 0 \/ Tgt(k) = 0 THEN 0
                    ELSE LET f == Pull(k, nodes[Tgt(k)].y - nodes[Src(k)].y)
                         IN  (IF Src(k) = i THEN f ELSE 0) - (IF Tgt(k) = i THEN f ELSE 0)
    IN  [x |-> TDiv(CenterX * Scale - me.x, CenterForceDiv)
                 + SumOver(RepX, 1, Len(nodes)) + SumOver(LinkX, 1, Len(links)),
         y |-> TDiv(CenterY * Scale - me.y, CenterForceDiv)
                 + SumOver(RepY, 1, Len(nodes)) + SumOver(LinkY, 1, Len(links))]

\* the drag event of this step moved node n to the pointer and stopped it
DragMovesOnlyTheNode ==
    lastOp'.op = "drag" =>
        /\ DOMAIN graphData'.nodes = DOMAIN graphData.nodes
        /\ \A i \in DOMAIN graphData.nodes :
              LET old == graphData.nodes[i]
                  new == graphData'.nodes[i]
              IN  IF old.id = lastOp'.id
                  THEN /\ new.id = old.id
                       /\ new.vx = 0 /\ new.vy = 0
                       /\ IsQuotient(new.x + dragListener.pan.x * Scale,
                                     (lastOp'.x - lastOp'.left) * Scale,
                                     dragListener.zoom)
                       /\ IsQuotient(new.y + dragListener.pan.y * Scale,
                                     (lastOp'.y - lastOp'.top) * Scale,
                                     dragListener.zoom)
                  ELSE new = old

\* the tick of this step, taken with no drag listener, applied the forces to
\* every node
TickAfterReleaseAppliesForces ==
    (lastOp'.op = "frame" /\ dragListener = None /\ graphData # NullData) =>
        \A i \in DOMAIN graphData.nodes :
            LET old == graphData.nodes[i]
                new == graphData'.nodes[i]
                force == NetForce(graphData, i)
            IN  /\ new.vx = TDiv((old.vx + force.x) * DampingNum, DampingDen)
                /\ new.vy = TDiv((old.vy + force.y) * DampingNum, DampingDen)
                /\ new.x = Clamp(MinX * Scale, MaxX * Scale, old.x + new.vx)
                /\ new.y = Clamp(MinY * Scale, MaxY * Scale, old.y + new.vy)

BodyIds(body) ==
    { IF body.nodes[i].id = "" THEN DefaultNodeId(i - 1) ELSE body.nodes[i].id :
        i \in DOMAIN body.nodes }

\* the link has an endpoint that is no node id
Dangling(link, ids) == link.source \notin ids \/ link.target \notin ids

NodeIdsOf(data) == { data.nodes[i].id : i \in DOMAIN data.nodes }

WithoutLink(data, k) ==
    [data EXCEPT !.links = SubSeq(data.links, 1, k - 1)
                             \o SubSeq(data.links, k + 1, Len(data.links))]

\* a tick and the render take no notice of an unresolved link
DanglingLinkIsSkipped ==
    graphData # NullData =>
        /\ RenderedNodes(graphData) = DOMAIN graphData.nodes
        /\ \A k \in DOMAIN graphData.links :
              Dangling(graphData.links[k], NodeIdsOf(graphData)) =>
                  /\ Simulate(graphData).nodes
                        = Simulate(WithoutLink(graphData, k)).nodes
                  /\ k \notin RenderedLinks(graphData)

\* a response whose body has an unresolved link loads like any other
DanglingLinkRaisesNoError ==
    ( /\ lastOp'.op = "fetch" /\ lastOp'.id = "json"
      /\ lastOp'.body.hasNodes /\ lastOp'.body.hasLinks
      /\ \E k \in DOMAIN lastOp'.body.links :
            Dangling(lastOp'.body.links[k], BodyIds(lastOp'.body)) )
    => /\ error' = error
       /\ toasts' = << "Knowledge graph loaded" >>
       /\ graphData' # NullData
       /\ NodeIdsOf(graphData') = BodyIds(lastOp'.body)
       /\ Len(graphData'.links) = Len(lastOp'.body.links)

\* C8: a link whose source or target id does not resolve to a node of the
\* current graph is a no-op: a tick's result equals the result with that link
\* removed, the render skips it and draws every node, and loading it raises
\* no error
C8_UnresolvedLinkIsNoOp ==
    []DanglingLinkIsSkipped /\ [][DanglingLinkRaisesNoError]_vars

\* a tick has run on a graph that has an unresolved link and a node off
\* centre, which a force on the link's resolved end would move
C8_Witness ==
    /\ lastOp.op = "frame"
    /\ graphData # NullData
    /\ \E k \in DOMAIN graphData.links :
          Dangling(graphData.links[k], NodeIdsOf(graphData))
    /\ \E i \in DOMAIN graphData.nodes : graphData.nodes[i].vx # 0

-----------------------------------------------------------------------------
(* Claims about the zoom factor (specification ZoomSpec) *)

\* C9: starting from zoom 1.0, after k consecutive zoomIn() calls the zoom
\* factor equals min(1.2^k, 3.0), for every k >= 0 (in particular k = 5)
C9_ZoomInRunIsClampedPower ==
    zoomInRun >= 0 =>
        zoom = FracMin(Frac(Pow(6, zoomInRun), Pow(5, zoomInRun)), ZoomMax)

\* five zoomIn calls from 1.0 have been made: 1.2^5 = 7776/3125
C9_Witness ==
    /\ zoomInRun = 5
    /\ lastOp.op = "zoomIn"
    /\ zoom = [n |-> 7776, d |-> 3125]

\* C10: in every reachable state, after any sequence of zoomIn, zoomOut and
\* reset operations, the zoom factor lies in [0.5, 3.0]
C10_ZoomWithinLimits ==
    /\ ~FracLess(zoom, ZoomMin)
    /\ ~FracLess(ZoomMax, zoom)

\* a zoomOut has just been stopped at the lower limit
C10_Witness ==
    /\ lastOp.op = "zoomOut"
    /\ zoom = ZoomMin

-----------------------------------------------------------------------------
(* Claim about handleNodeClick (specification SelectSpec) *)

-----------------------------------------------------------------------------
(* Claims about the upload (specification UploadSpec) *)

IsPdf(file) == file.type = PdfType
NoPdfIn(batch) == \A i \in DOMAIN batch : ~IsPdf(batch[i])
Mixed(batch) ==
    /\ \E i \in DOMAIN batch : IsPdf(batch[i])
    /\ \E i \in DOMAIN batch : ~IsPdf(batch[i])

AllStatus(list, status) == \A i \in DOMAIN list : list[i].status = status

\* a submit without any PDF leaves the session as it was
RejectedSubmitChangesNothing ==
    /\ uploadRequest' = uploadRequest
    /\ files' = files
    /\ uploadProgress' = uploadProgress
    /\ isUploading' = isUploading
    /\ progressInterval' = progressInterval

\* C4 as claimed: submitting a batch in which no file has media type
\* application/pdf issues no upload request and changes neither the file list,
\* the upload progress nor isUploading; only the 'no valid files' notice is
\* raised
C4_OnlyNoValidFilesNotice ==
    [][(lastOp'.op = "submit" /\ NoPdfIn(lastOp'.batch))
          => /\ RejectedSubmitChangesNothing
             /\ toasts' = << "No valid files" >>]_vars

\* C4 as amended: ...; the 'no valid files' notice is raised, preceded by the
\* 'invalid files detected' notice when the batch is not empty
C4_NoValidFilesNotices ==
    [][(lastOp'.op = "submit" /\ NoPdfIn(lastOp'.batch))
          => /\ RejectedSubmitChangesNothing
             /\ toasts' = IF lastOp'.batch = << >>
                          THEN << "No valid files" >>
                          ELSE << "Invalid files detected", "No valid files" >>]_vars

\* a batch of one text file has been submitted while an earlier list was
\* shown: both notices are up, nothing is being uploaded
C4_Witness ==
    /\ lastOp.op = "submit"
    /\ lastOp.batch # << >>
    /\ NoPdfIn(lastOp.batch)
    /\ toasts = << "Invalid files detected", "No valid files" >>
    /\ uploadRequest = None
    /\ files # << >>

\* C5: submitting a mixed batch uploads exactly the files whose media type is
\* application/pdf, in their original order: the file list, the request body
\* and the names passed to onUploadComplete are that subset, and the
\* unrecognized files are reported as filtered
C5_MixedBatchUploadsPdfSubset ==
    [][ /\ (lastOp'.op = "submit" /\ Mixed(lastOp'.batch)) =>
              LET accepted == SelectSeq(lastOp'.batch, IsPdf)
              IN  /\ uploadRequest' # None
                  /\ uploadRequest'.files = accepted
                  /\ FileNames(files') = FileNames(accepted)
                  /\ AllStatus(files', "uploading")
                  /\ toasts' = << "Invalid files detected" >>
        /\ (lastOp'.op = "uploadResolved" /\ uploadCompleteCalls' # << >>) =>
              /\ Len(uploadCompleteCalls') = 1
              /\ uploadCompleteCalls'[1].documents = FileNames(uploadRequest.files)
              /\ \A i \in DOMAIN uploadRequest.files : IsPdf(uploadRequest.files[i])
      ]_vars

\* a.pdf, notes.txt, b.pdf have been submitted: a.pdf and b.pdf are listed and
\* in the request
C5_Witness ==
    /\ lastOp.op = "submit"
    /\ FileNames(lastOp.batch) = << "a.pdf", "notes.txt", "b.pdf" >>
    /\ FileNames(files) = << "a.pdf", "b.pdf" >>
    /\ uploadRequest # None
    /\ FileNames(uploadRequest.files) = << "a.pdf", "b.pdf" >>

\* C6: when the upload request resolves with a success JSON response carrying
\* cluster_id c, every file in the list goes to status success and
\* onUploadComplete is called exactly once with (c, the names of the accepted
\* files in submitted order)
C6_SuccessMarksAllAndReportsOnce ==
    [][(lastOp'.op = "uploadResolved" /\ lastOp'.id = "json") =>
          /\ FileNames(files') = FileNames(files)
          /\ AllStatus(files', "success")
          /\ uploadCompleteCalls' =
                << [clusterId |-> lastOp'.cluster,
                    documents |-> FileNames(uploadRequest.files)] >>
          /\ clusterId' = lastOp'.cluster
          /\ documents' = FileNames(uploadRequest.files)
          /\ selectedDocument' = FileNames(uploadRequest.files)[1]
      ]_vars

\* the response {cluster_id: "c1"} to a request of two files has arrived: both
\* are in status success and ("c1", [a.pdf, b.pdf]) was reported
C6_Witness ==
    /\ lastOp.op = "uploadResolved"
    /\ lastOp.id = "json"
    /\ FileNames(files) = << "a.pdf", "b.pdf" >>
    /\ AllStatus(files, "success")
    /\ uploadCompleteCalls = << [clusterId |-> "c1", documents |-> << "a.pdf", "b.pdf" >>] >>

\* the request ended in a network error or a response that is not ok
UploadFailed == lastOp'.op = "uploadResolved" /\ lastOp'.id \in {"reject", "status"}

\* the reason the user is shown for it
FailureReason ==
    IF lastOp'.id = "status" THEN << "Upload failed: " >> \o lastOp'.text
    ELSE lastOp'.text

AllFilesFail ==
    /\ FileNames(files') = FileNames(files)
    /\ AllStatus(files', "error")
    /\ uploadError' = FailureReason
    /\ uploadCompleteCalls' = << >>

\* C7 as claimed: when the batch upload fails, by network error or by a
\* non-success response, every file in the list goes to status error, the error
\* message is set to the failure reason, and onUploadComplete is not called
C7_FailureMarksAllError ==
    [][UploadFailed => AllFilesFail]_vars

\* C7 as amended: ... unless the failure reason contains "Failed to fetch",
\* "NetworkError" or "API_NOT_AVAILABLE": then demo mode makes every file
\* success and calls onUploadComplete once with a demo cluster id
C7_FailureMarksAllErrorUnlessDemo ==
    [][UploadFailed =>
          IF \/ Includes(FailureReason, "Failed to fetch")
             \/ Includes(FailureReason, "NetworkError")
             \/ Includes(FailureReason, "API_NOT_AVAILABLE")
          THEN /\ AllStatus(files', "success")
               /\ Len(uploadCompleteCalls') = 1
               /\ uploadCompleteCalls'[1].clusterId
                     \in { "demo_cluster_" \o ToString(now) : now \in ClockTimes }
               /\ uploadError' = uploadError
          ELSE AllFilesFail]_vars

\* the request of two files was answered 500 Internal Server Error: both are
\* in status error and the reason is shown
C7_Witness ==
    /\ lastOp.op = "uploadResolved"
    /\ lastOp.id = "status"
    /\ Len(files) = 2
    /\ AllStatus(files, "error")
    /\ uploadError = << "Upload failed: ", "Internal Server Error" >>
    /\ uploadCompleteCalls = << >>

-----------------------------------------------------------------------------
(* Claims about the life of the graph view (specification LifecycleSpec) *)

\* the step is a graph fetch that ended in a network error, a response that
\* is not ok, or a body without the nodes or the links array
GraphFetchFailed ==
    /\ lastOp'.op = "fetch"
    /\ \/ lastOp'.id \in {"reject", "status"}
       \/ ~lastOp'.body.hasNodes
       \/ ~lastOp'.body.hasLinks

C12_CloseCancelsLoop ==
    /\ [](~showKnowledgeGraph => scheduledFrames = {})
    /\ [][~showKnowledgeGraph => lastOp'.op # "frame"]_vars

\* the node ids in order and the links: who belongs to the graph
Membership(data) ==
    IF data = NullData THEN << << >>, << >> >>
    ELSE << [i \in DOMAIN data.nodes |-> data.nodes[i].id], data.links >>

\* C17: a simulation tick and a drag event preserve graph membership: the
\* sequence of node ids and the link list are identical before and after;
\* membership changes only when a fetch result replaces the data or reset
\* clears it
C17_MembershipPreserved ==
    [][ /\ lastOp'.op \in {"frame", "drag"} => Membership(graphData') = Membership(graphData)
        /\ Membership(graphData') # Membership(graphData) => lastOp'.op \in {"fetch", "reset"}
      ]_vars

\* a node of the pair a - b has been dragged after a tick: a, b and the link
\* are all there
C17_Witness ==
    /\ lastOp.op = "drag"
    /\ ticks >= 1
    /\ Membership(graphData) = << << "a", "b" >>, << [source |-> "a", target |-> "b", weight |-> 1] >> >>

\* C18: at most one simulation loop is live at any time: there is never more
\* than one pending frame callback, and it is the one the live effect holds
C18_SingleLoop ==
    /\ Cardinality(scheduledFrames) <= 1
    /\ scheduledFrames \subseteq {animationId}

\* the data has been replaced by a drag while the loop was running, after a
\* tick: one callback is pending
C18_Witness ==
    /\ lastOp.op = "drag"
    /\ ticks >= 1
    /\ animationId # 0
    /\ scheduledFrames = {animationId}

\* C19: the simulation runs continuously while the graph is visible: in every
\* reachable state in which the view is visible with a loaded graph and not
\* loading, a simulation tick is scheduled, including after the view was
\* closed and opened again
C19_LoopRunsWhileVisible ==
    (showKnowledgeGraph /\ graphData # NullData /\ ~isLoading) => scheduledFrames # {}

-----------------------------------------------------------------------------
(* Claim about resetGraph (specification ResetSpec) *)

\* C16: reset() discards the current node/link data (graphData becomes null),
\* clears the selected node, restores zoom to 1 and pan to (0,0), and triggers
\* a fresh fetch of the graph for the current cluster id
C16_ResetDiscardsAndRefetches ==
    [][lastOp'.op = "reset" =>
          /\ graphData' = NullData
          /\ selectedNode' = Null
          /\ zoom' = One
          /\ pan' = Origin
          /\ isLoading'
          /\ Len(graphFetches') > Len(graphFetches)
          /\ SubSeq(graphFetches', 1, Len(graphFetches)) = graphFetches
          /\ \A k \in (Len(graphFetches) + 1)..Len(graphFetches') :
                graphFetches'[k] = clusterId
      ]_vars

\* the graph of c2 was loaded, zoomed and had a node selected when reset was
\* clicked: it is gone, the selection too, the view is back at 1, and the
\* graph of c2 is being fetched
C16_Witness ==
    /\ lastOp.op = "reset"
    /\ clusterId = "c2"
    /\ zoomClicks >= 1
    /\ zoom = One
    /\ selectedNode = Null
    /\ graphData = NullData
    /\ graphCluster = Null
    /\ graphFetches = << "c2", "c2" >>

-----------------------------------------------------------------------------
(* Claims about the progress and clearAll (specification UploadSpec) *)

\* the request is unresolved before and after the step
StaysUnresolved == uploadRequest # None /\ uploadRequest' # None

\* the request resolves or rejects: the progress is 100
ResolvedAtHundred == lastOp'.op = "uploadResolved" => uploadProgress' = 100

\* once the request is resolved no step of the timer changes the progress
NoTimerStepAfterResolve ==
    (uploadRequest = None /\ lastOp'.op = "progress") => uploadProgress' = uploadProgress

\* C14 as claimed: while an upload request is unresolved the reported progress
\* never exceeds 90 and changes only by +10 steps; as soon as the request
\* resolves or rejects the progress is 100 and no later timer step changes it
C14_ProgressOnlySteps ==
    /\ [](uploadRequest # None => uploadProgress <= 90)
    /\ [][ /\ (StaysUnresolved /\ uploadProgress' # uploadProgress)
                 => uploadProgress' = uploadProgress + 10
           /\ ResolvedAtHundred
           /\ NoTimerStepAfterResolve ]_vars

\* C14 as amended: while an upload request is unresolved the reported progress
\* never exceeds 90 and changes only by +10 steps of the timer or back to 0 by
\* clear(); as soon as the request resolves or rejects the progress is 100 and
\* no later timer step changes it
C14_ProgressStepsOrClear ==
    /\ [](uploadRequest # None => (uploadProgress <= 90 /\ uploadProgress % 10 = 0))
    /\ [][ /\ (StaysUnresolved /\ uploadProgress' # uploadProgress)
                 => \/ lastOp'.op = "progress" /\ uploadProgress' = uploadProgress + 10
                    \/ lastOp'.op = "clear" /\ uploadProgress' = 0
           /\ ResolvedAtHundred
           /\ NoTimerStepAfterResolve ]_vars

\* the timer has brought the progress of an unresolved request to 90 and has
\* stopped itself
C14_Witness ==
    /\ lastOp.op = "progress"
    /\ uploadRequest # None
    /\ uploadProgress = 90
    /\ ~progressInterval

\* the empty state of the upload session
SessionEmpty == files = << >> /\ uploadError = NoMessage /\ uploadProgress = 0

\* C15: clear() resets the upload session to the empty state from any state:
\* the file list is empty, the error is null and the progress is 0, and the
\* session stays empty until the next submit
C15_ClearEmptiesUntilSubmit ==
    [][ /\ lastOp'.op = "clear" => SessionEmpty'
        /\ (SessionEmpty /\ lastOp'.op # "submit") => SessionEmpty' ]_vars

-----------------------------------------------------------------------------
(* Claims about the reader (specification ReaderSpec) *)

\* text consists of white space only (the empty text included)
Blank(text) == \A i \in DOMAIN text : text[i] \in WhiteSpace

\* text is not empty and neither begins nor ends with white space
Trimmed(text) ==
    /\ text # << >>
    /\ text[1] \notin WhiteSpace
    /\ text[Len(text)] \notin WhiteSpace

\* C13: every onTextSelection call made by a step of the viewer (an event of
\* the embedded viewer or a sample button) carries a non-empty text without
\* leading or trailing white space and the name of the document being viewed;
\* for a viewer event the text is the event's text trimmed; an event that is
\* not SELECTION_END, or whose text is missing, empty or white space only,
\* makes no call.
C13_TrimmedSelectionOnly ==
    [][ lastOp'.op \in {"viewerEvent", "sample"} =>
          /\ \A i \in DOMAIN textSelectionCalls' :
                /\ Trimmed(textSelectionCalls'[i].text)
                /\ textSelectionCalls'[i].documentName = selectedDocument
                /\ lastOp'.op = "viewerEvent" =>
                      /\ lastOp'.event.type = "SELECTION_END"
                      /\ lastOp'.event.hasText
                      /\ textSelectionCalls'[i].text = Trim(lastOp'.event.text)
          /\ ( /\ lastOp'.op = "viewerEvent"
               /\ \/ lastOp'.event.type # "SELECTION_END"
                  \/ ~lastOp'.event.hasText
                  \/ Blank(lastOp'.event.text) )
             => textSelectionCalls' = << >> ]_vars

\* a selection with white space around it in a.pdf has been delivered trimmed
C13_Witness ==
    /\ lastOp.op = "viewerEvent"
    /\ lastOp.event = [type |-> "SELECTION_END", hasText |-> TRUE,
                       text |-> << " ", "alpha", " ", "beta", "\n" >>]
    /\ textSelectionCalls =
          << [text |-> << "alpha", " ", "beta" >>, documentName |-> "a.pdf"] >>
    /\ selectedText = << "alpha", " ", "beta" >>
    /\ showInsights

\* C20: a resolved recommendation request is applied whatever text is
\* selected by then: a JSON answer to the request for a text sets the list to
\* the first five snippets for that text, and any of the unresolved requests
\* may be the one that resolves, so the answer for an earlier text can be the
\* last one applied.
C20_ResponsesAppliedUnordered ==
    [][ (lastOp'.op = "recommendations" /\ lastOp'.id = "json") =>
          /\ lastOp'.request \in { recommendationRequests[k] :
                                      k \in DOMAIN recommendationRequests }
          /\ Len(recommendationRequests') = Len(recommendationRequests) - 1
          /\ recommendations' =
                SubSeq(SnippetsFor(lastOp'.request.query, lastOp'.x),
                       1, Min(5, lastOp'.x))
          /\ ~isLoadingRecommendations' ]_vars

\* alpha was selected, then beta while the request for alpha was unresolved;
\* both requests have resolved, the one for alpha last: the list shown is the
\* one for alpha while beta is selected
C20_Witness ==
    /\ recommendationRequests = << >>
    /\ ~isLoadingRecommendations
    /\ selectedText = << "beta" >>
    /\ lastOp.op = "recommendations"
    /\ lastOp.request.query = << "alpha" >>
    /\ recommendations = SnippetsFor(<< "alpha" >>, 1)

-----------------------------------------------------------------------------
(* Claims about the statuses of the files (specification UploadSpec) *)

\* all files of the list have the same status
UniformStatus(list) == \A i, j \in DOMAIN list : list[i].status = list[j].status

\* C21: in every reachable state of the upload session all files of the list
\* have the same status.
C21_UniformStatus == UniformStatus(files)

\* a batch of two files has been answered by a failure
C21_Witness ==
    /\ lastOp.op = "uploadResolved"
    /\ Len(files) = 2
    /\ \A i \in DOMAIN files : files[i].status = "error"

\* one step in the life of a file record: it stays as it is, or goes from
\* uploading to success or error
FileStep(old, new) ==
    /\ new.name = old.name
    /\ new.size = old.size
    /\ \/ new.status = old.status
       \/ old.status = "uploading" /\ new.status \in {"success", "error"}

\* C24: a file record is created as uploading (a submit replaces the list by
\* new records); every other step removes records or leaves each record
\* where it is, its status unchanged or moved from uploading to success or
\* error: a record in success or error never changes again.
C24_LinearStatus ==
    [][ IF lastOp'.op = "submit"
        THEN \/ files' = files
             \/ \A i \in DOMAIN files' : files'[i].status = "uploading"
        ELSE \/ files' = << >>
             \/ \E k \in DOMAIN files :
                   files' = SubSeq(files, 1, k - 1) \o SubSeq(files, k + 1, Len(files))
             \/ /\ Len(files') = Len(files)
                /\ \A i \in DOMAIN files : FileStep(files[i], files'[i]) ]_vars

\* after a successful upload of two files one was removed: the other is still
\* in success
C24_Witness ==
    /\ lastOp.op = "remove"
    /\ Len(files) = 1
    /\ files[1].status = "success"
    /\ ~isUploading

-----------------------------------------------------------------------------
(* Claims about the selection, the cluster and the fetches of the graph view *)

\* C22: whenever selectedNode is non-null, the graph data is non-null and has
\* a node with that id (specification ResetSpec).
C22_SelectionInGraph ==
    selectedNode # Null =>
        /\ graphData # NullData
        /\ selectedNode \in NodeIdsOf(graphData)

\* C25: whenever the view is visible and a graph is loaded, the graph was
\* requested for the current cluster id (specification ClusterSpec).
C25_GraphOfCurrentCluster ==
    (showKnowledgeGraph /\ graphData # NullData) => graphCluster = clusterId

\* C26: each reset issues exactly one graph fetch request, and each opening
\* of the view with no loaded graph issues exactly one (specification
\* ResetSpec).
C26_OneFetchPerReset ==
    [][ /\ lastOp'.op = "reset" => Len(graphFetches') = Len(graphFetches) + 1
        /\ (lastOp'.op = "open" /\ graphData = NullData)
              => Len(graphFetches') = Len(graphFetches) + 1 ]_vars

-----------------------------------------------------------------------------
(* Claims about the page and the viewer (specification ReaderSpec) *)

\* C28: in every reachable state of the page selectedDocument is null or one
\* of the names of the documents list.
C28_SelectedDocumentListed ==
    \/ selectedDocument = Null
    \/ \E i \in DOMAIN documents : documents[i] = selectedDocument

\* C27: a selection event does not reload the document: the step that
\* handles it makes no previewFile call and leaves the registered callback in
\* place.
C27_SelectionDoesNotReload ==
    [][ lastOp'.op = "viewerEvent" =>
          /\ previewFileCalls' = 0
          /\ viewerListener' = viewerListener ]_vars

-----------------------------------------------------------------------------
(* Claims about the polling and the fallback mode (specification PollSpec) *)

\* C29: the polling always ends; the SDK is checked at most MaxAttempts
\* times; the timer is set only while the viewer is mounted and the SDK not
\* found; once the timer is off in a mounted viewer, isAdobeSDKReady is set,
\* or useFallback is set with isLoading false.
C29_PollingTerminates ==
    /\ [](sdkAttempts + (IF isAdobeSDKReady THEN 1 ELSE 0) <= MaxAttempts)
    /\ [](pollTimer => viewerMounted /\ ~isAdobeSDKReady /\ sdkAttempts < MaxAttempts)
    /\ []((viewerMounted /\ ~pollTimer) =>
            \/ isAdobeSDKReady
            \/ useFallback /\ ~viewerIsLoading /\ sdkAttempts = MaxAttempts)
    /\ <>[](~pollTimer)

\* the SDK never loaded: the last of the MaxAttempts checks has switched to
\* the fallback viewer
C29_Witness ==
    /\ lastOp.op = "pollCheck"
    /\ sdkAttempts = MaxAttempts
    /\ ~sdkPresent
    /\ ~pollTimer
    /\ useFallback
    /\ ~viewerIsLoading

\* C30: once useFallback is true it stays true, and no step taken in fallback
\* mode calls previewFile.
C30_FallbackAbsorbing ==
    [][ useFallback => (useFallback' /\ previewFileCalls' = 0) ]_vars

\* the initialisation failed with the SDK loaded, and another document was
\* selected afterwards: it is shown by the fallback viewer
C30_Witness ==
    /\ lastOp.op = "selectDocument"
    /\ isAdobeSDKReady
    /\ useFallback
    /\ selectedDocument = "b.pdf"
    /\ previewFileCalls = 0

-----------------------------------------------------------------------------
(* Claims about the failed network calls (specification PanelSpec) *)

FailureKinds == {"status", "reject", "badjson", "html", "text"}

\* the step is the end of an upload, of a recommendations, insights or podcast
\* request that failed
UploadCallFailed == lastOp'.op = "uploadResolved" /\ lastOp'.id \in FailureKinds
RecommendationsFailed == lastOp'.op = "recommendations" /\ lastOp'.id \in FailureKinds
InsightsFailed == lastOp'.op = "insights" /\ lastOp'.id \in FailureKinds
PodcastFailed == lastOp'.op = "podcast" /\ lastOp'.id \in FailureKinds

\* the failures other than those of the insights request end with the loading
\* flag false and with an error banner or a toast raised by the step
OtherFailuresReported ==
    /\ UploadCallFailed =>
          /\ ~isUploading'
          /\ uploadError' # NoMessage \/ toasts' # << >>
    /\ RecommendationsFailed =>
          /\ ~isLoadingRecommendations'
          /\ panelError' # Null
    /\ PodcastFailed =>
          /\ ~isGeneratingPodcast'
          /\ toasts' = << "Podcast generation failed" >>
    /\ GraphFetchFailed =>
          /\ ~isLoading'
          /\ error' # Null
          /\ toasts' # << >>

====
